---- MODULE Spec2Model ----
(***************************************************************************)
(* Chunked log-linear attention (fla/ops/log_linear_attn/chunk.py) and the *)
(* entry checks of chunk_gla (fla/ops/gla/chunk.py).                       *)
(*                                                                         *)
(* One lane (sequence 0, head 0, key block 0) of the forward kernel is     *)
(* modelled row by row.  Tensor rows are symbolic: the q/k/v/l row of      *)
(* global position p is the integer p + 1, a zero row is 0, and adding a   *)
(* zero row is integer addition.  Gates are integers in log space.  A      *)
(* level buffer is the set of its summands <<k, v, e>>, standing for       *)
(* k^T v * exp(e); the zero buffer is the empty set.                       *)
(***************************************************************************)
EXTENDS Integers, Sequences, FiniteSets, TLC

\* ---------------------------------------------------------------- bounds
MaxCalls == 2
MaxTotal == 320

\* ------------------------------------------------------ program constants
BT == 64
MIN_LEVEL == 0
NumKV == 12
LevelCap == 10
IntBits == 31

NONE == [none |-> TRUE]

TooLong == BT * (2 ^ (LevelCap + 1)) + 1
CallLens == {1, 2, 64, 65, 128, 192}
GatePatterns == {1, 2}
JunkVals == {0, 999}

\* ------------------------------------------------------------ arithmetic
Min2(a, b) == IF a <= b THEN a ELSE b

cdiv(x, y) == (x + y - 1) \div y

ceil_div(x, y) == (x + y - 1) \div y

ceil_log(x, b) == CHOOSE e \in 0..(IntBits - 1) : b ^ e >= x /\ (e = 0 \/ b ^ (e - 1) < x)

Bit(c, i) == (c \div (2 ^ i)) % 2 = 1

\* variant: the mask keeps only the lowest clear bit of c
CheckValueLowestClear(c) ==
    LET RECURSIVE AndNot(_)
        AndNot(i) == IF i > IntBits - 1 THEN 0
                     ELSE (IF ~Bit(c, i) /\ Bit(c + 1, i) THEN 2 ^ i ELSE 0) + AndNot(i + 1)
    IN  AndNot(0)

\* (~c & (c + 1)) - 1 on int32, c >= 0: the sign bit of ~c meets a clear bit of c + 1
CheckValue(c) ==
    LET RECURSIVE AndNot(_)
        AndNot(i) == IF i > IntBits - 1 THEN 0
                     ELSE (IF ~Bit(c, i) /\ Bit(c + 1, i) THEN 2 ^ i ELSE 0) + AndNot(i + 1)
    IN  AndNot(0) - 1

\* ------------------------------------------------------------ level table
\* variant: the mask has no upper limit on the key index
construct_binary_level_mask_open(level, i, j) ==
    IF level = 0 THEN i = j
    ELSE /\ i % (2 ^ level) >= 2 ^ (level - 1)
         /\ j + 2 ^ (level - 1) >= i - (i % (2 ^ (level - 1)))

construct_binary_level_mask(level, i, j) ==
    IF level = 0 THEN i = j
    ELSE /\ i % (2 ^ level) >= 2 ^ (level - 1)
         /\ j + 2 ^ (level - 1) >= i - (i % (2 ^ (level - 1)))
         /\ j < i - (i % (2 ^ (level - 1)))

level_lut ==
    [i \in 0..(BT - 1) |-> [j \in 0..(BT - 1) |->
        LET hits == {lv \in 1..ceil_log(BT, 2) : construct_binary_level_mask(lv, i, j)}
        IN  IF hits = {} THEN 0 ELSE CHOOSE lv \in hits : \A m \in hits : m <= lv]]

num_intra_levels == ceil_log(BT, 2) + 1

\* ---------------------------------------------------------------- inputs
\* caller's tensors: row of global position p
QIn(p) == p + 1

KIn(p) == p + 1

VIn(p) == p + 1

LIn(p) == p + 1

GIn(pat, p) == IF pat = 1 THEN -1 ELSE -(1 + (p % 3))

\* boundary-checked block load of row a (0-based) of a buffer with T rows
Row(buf, T, a) == IF a >= 0 /\ a < T THEN buf[a + 1] ELSE 0

\* load through a block pointer whose declared shape (T rows) exceeds the
\* tensor (Torig rows): rows Torig..T-1 are read out of bounds
RowDecl(buf, Torig, T, a, junk) ==
    IF a < 0 \/ a >= T THEN 0 ELSE IF a < Torig THEN buf[a + 1] ELSE junk

\* ------------------------------------------------- entry checks (python)
\* args: [api, B, T, G, cu, s0, offs]; an absent argument is Absent; cu is
\* the tuple of cu_seqlens, s0 the one-tuple of initial_state.shape[0],
\* offs the tuple initial_state.offsets
Absent == <<>>

SeqMax(s) == CHOOSE m \in {s[i] : i \in DOMAIN s} : \A i \in DOMAIN s : s[i] <= m

BatchMessage(B) == [error |-> "ValueError", what |-> "batch size", expected |-> 1, actual |-> B]

StatesMessage(n, m) == [error |-> "ValueError", what |-> "initial states", expected |-> n, actual |-> m]

GroupMessage == [error |-> "ValueError", what |-> "Group dimension must be 1."]

LengthMessage == [error |-> "ValueError", what |-> "Sequence length must be less than 2**17"]

IndexMessage == [error |-> "IndexError", what |-> "offsets"]

\* torch.cumsum(offsets % BT) is called without its required dim argument
CumsumMessage == [error |-> "TypeError", what |-> "cumsum"]

AssertMessage == [error |-> "AssertionError", what |-> "offsets"]

HeadsMessage(n, m) == [error |-> "ValueError", what |-> "heads", expected |-> n, actual |-> m]

NotImplementedMessage ==
    [error |-> "NotImplementedError",
     what |-> "Backward pass is not implemented for log-linear attention."]

OK == [error |-> "none"]

\* result of a call's checks: the exception, whether the autograd function
\* was applied, whether device buffers were allocated and whether kernels
\* were launched
Raised(e, ap) == [err |-> e, applied |-> ap, launched |-> FALSE, allocated |-> FALSE]

RaisedAllocated(e) == [err |-> e, applied |-> TRUE, launched |-> FALSE, allocated |-> TRUE]

RaisedLaunched(e) == [err |-> e, applied |-> TRUE, launched |-> TRUE, allocated |-> TRUE]

Passed == [err |-> OK, applied |-> TRUE, launched |-> TRUE, allocated |-> TRUE]

Pending == [err |-> OK, applied |-> FALSE, launched |-> FALSE, allocated |-> FALSE]

ForwardNT(a) ==
    IF a.cu = Absent
    THEN ceil_div(a.T + (IF a.offs /= Absent THEN SeqMax(a.offs) ELSE 0), BT)
    ELSE SeqMax([i \in 1..(Len(a.cu) - 1) |->
                    ceil_div(a.cu[i + 1] - a.cu[i] + (IF a.offs /= Absent THEN a.offs[i] ELSE 0), BT)])

\* variant: the chunks consumed by earlier calls are not counted
ForwardMaxLevelOfCall(a) == ceil_log(ceil_div(a.T, BT), 2) - 1

ForwardMaxLevel(a) == ceil_log(ForwardNT(a), 2) - 1

\* variant: the length check comes before the group check
ForwardCheckLengthFirst(a) ==
    IF a.cu /= Absent /\ a.offs /= Absent /\ Len(a.offs) < Len(a.cu) - 1
    THEN Raised(IndexMessage, TRUE)
    ELSE IF ForwardMaxLevel(a) > LevelCap THEN Raised(LengthMessage, TRUE)
    ELSE IF a.G /= 1 THEN Raised(GroupMessage, TRUE)
    ELSE IF a.cu /= Absent /\ a.offs /= Absent THEN RaisedAllocated(CumsumMessage)
    ELSE IF a.offs /= Absent /\ \E i \in DOMAIN a.offs : a.offs[i] /= a.offs[1]
         THEN RaisedAllocated(AssertMessage)
    ELSE Passed

\* ChunkLogLinearAttentionFunction.forward up to the launch of
\* copy_input_kernel: the checks, the allocation of o, and the preparation
\* of the carried rows
ForwardCheck(a) ==
    IF a.G /= 1 THEN Raised(GroupMessage, TRUE)
    ELSE IF a.cu /= Absent /\ a.offs /= Absent /\ Len(a.offs) < Len(a.cu) - 1
         THEN Raised(IndexMessage, TRUE)
    ELSE IF ForwardMaxLevel(a) > LevelCap THEN Raised(LengthMessage, TRUE)
    ELSE IF a.cu /= Absent /\ a.offs /= Absent THEN RaisedAllocated(CumsumMessage)
    ELSE IF a.offs /= Absent /\ \E i \in DOMAIN a.offs : a.offs[i] /= a.offs[1]
         THEN RaisedAllocated(AssertMessage)
    ELSE Passed

\* variant: the batch-size check is missing
chunk_log_linear_attn_unchecked(a) == ForwardCheck(a)

chunk_log_linear_attn(a) ==
    IF a.cu /= Absent /\ a.B /= 1 THEN Raised(BatchMessage(a.B), FALSE)
    ELSE ForwardCheck(a)

\* fla.ops.common.chunk_h.chunk_fwd_h: state propagation rejects keys and
\* values with different head counts at its boundary
chunk_fwd_h_check(a) ==
    IF a.Hk /= a.Hv THEN RaisedLaunched(HeadsMessage(a.Hk, a.Hv)) ELSE Passed

\* ChunkGLAFunction.forward -> chunk_gla_fwd: chunk_local_cumsum is launched
\* first, then chunk_fwd_h
chunk_gla_fwd_check(a) == chunk_fwd_h_check(a)

\* variant: the state count is compared with len(cu_seqlens)
chunk_gla_off_by_one(a) ==
    IF a.cu /= Absent /\ a.B /= 1 THEN Raised(BatchMessage(a.B), FALSE)
    ELSE IF a.cu /= Absent /\ a.s0 /= Absent /\ a.s0[1] /= Len(a.cu)
         THEN Raised(StatesMessage(Len(a.cu), a.s0[1]), FALSE)
    ELSE chunk_gla_fwd_check(a)

chunk_gla(a) ==
    IF a.cu /= Absent /\ a.B /= 1 THEN Raised(BatchMessage(a.B), FALSE)
    ELSE IF a.cu /= Absent /\ a.s0 /= Absent /\ a.s0[1] /= Len(a.cu) - 1
         THEN Raised(StatesMessage(Len(a.cu) - 1, a.s0[1]), FALSE)
    ELSE chunk_gla_fwd_check(a)

\* ------------------------------------------------------- kernel helpers
EmptyKV == [i \in 0..(NumKV - 1) |-> {}]

KV_CREATED(i, MAX_LEVEL) ==
    MIN_LEVEL <= i + 1 /\ MAX_LEVEL >= (IF i = 0 THEN 0 ELSE i - 1)

Decay(buf, e) == {<<t[1], t[2], t[3] + e>> : t \in buf}

\* copy_input_kernel: carried rows first, then the new rows
copy_input_kernel(src, prev, Torig, T, off, junk) ==
    LET input_offset == -1 * (off % BT)
    IN  [j \in 1..T |->
            RowDecl(src, Torig, T, (j - 1) + input_offset, junk)
            + (IF (j - 1) \div BT = 0 THEN prev[j] ELSE 0)]

\* fla.ops.utils.chunk_local_cumsum: inclusive running sum inside each chunk
chunk_local_cumsum(gg, T) ==
    LET RECURSIVE Acc(_)
        Acc(j) == IF (j - 1) % BT = 0 THEN gg[j] ELSE Acc(j - 1) + gg[j]
    IN  [j \in 1..T |-> Acc(j)]

\* kernel prologue: level buffers loaded from h0
LoadKV(h0, first_chunk_index, MAX_LEVEL, junk) ==
    [i \in 0..(NumKV - 1) |->
        IF KV_CREATED(i, MAX_LEVEL) /\ Bit(first_chunk_index, i)
        THEN (IF i \in DOMAIN h0 THEN h0[i] ELSE {<<junk, junk, junk>>})
        ELSE {}]

\* variant: the level test looks at the next chunk index
OutLevelsNextChunk(c, MAX_LEVEL) ==
    {lv \in 0..(NumKV - 1) : MIN_LEVEL <= lv /\ MAX_LEVEL >= lv /\ Bit(c + 1, lv)}

\* levels added to the output of global chunk c
OutLevels(c, MAX_LEVEL) ==
    {lv \in 0..(NumKV - 1) : MIN_LEVEL <= lv /\ MAX_LEVEL >= lv /\ Bit(c, lv)}

\* one output row: masked intra-chunk scores times values, plus the row's
\* own q, l and cumulative gate that scale the level buffers
OutRow(bq, bk, bv, bg, bl, T, i_t, i) ==
    LET a == i_t * BT + i
    IN  [q |-> Row(bq, T, a), l |-> Row(bl, T, a), g |-> Row(bg, T, a),
         intra |-> IF MIN_LEVEL = 0 /\ Row(bq, T, a) /= 0
                   THEN {<<Row(bk, T, i_t * BT + j), Row(bv, T, i_t * BT + j),
                           Row(bg, T, a) - Row(bg, T, i_t * BT + j), level_lut[i][j]>> :
                           j \in {jj \in 0..i : Row(bk, T, i_t * BT + jj) /= 0
                                               /\ Row(bv, T, i_t * BT + jj) /= 0}}
                   ELSE {}]

\* rows of o written by iteration i_t (tl.store with boundary check)
StoreO(oo, Torig, bq, bk, bv, bg, bl, T, i_t, off) ==
    LET output_offset == -1 * (off % BT)
    IN  [t \in 1..Torig |->
            LET a == (t - 1) - output_offset
            IN  IF a \div BT = i_t /\ (t - 1) < T
                THEN OutRow(bq, bk, bv, bg, bl, T, i_t, a % BT)
                ELSE oo[t]]

\* variant: the trailing partial chunk updates the level buffers too
IsFullEveryChunk(T, i_t) == i_t < cdiv(T, BT)

\* does iteration i_t update the level buffers?
IsFull(T, i_t) == i_t < cdiv(T, BT) - 1 \/ T % BT = 0

\* the carry chain: level i + 1 absorbs level i, lowest level first
RECURSIVE Carry(_, _, _, _)
Carry(buf, check_value, MAX_LEVEL, i) ==
    IF i > NumKV - 2 THEN buf
    ELSE IF MIN_LEVEL <= i + 1 /\ MAX_LEVEL >= i /\ Bit(check_value, i)
         THEN Carry([buf EXCEPT ![i + 1] = buf[i + 1] \cup buf[i], ![i] = {}],
                    check_value, MAX_LEVEL, i + 1)
         ELSE Carry(buf, check_value, MAX_LEVEL, i + 1)

FoldLevel == IF MIN_LEVEL <= 1 THEN 0 ELSE MIN_LEVEL - 1

\* variant: the decay is applied after the chunk's own contribution is added
UpdateKVDecayAfterFold(buf, bk, bv, bg, T, i_t, chunk_index, MAX_LEVEL) ==
    LET last_idx == Min2((i_t + 1) * BT, T) - 1
        b_g_last == bg[last_idx + 1]
        b_kv     == {<<Row(bk, T, i_t * BT + j), Row(bv, T, i_t * BT + j),
                       b_g_last - Row(bg, T, i_t * BT + j)>> :
                       j \in {jj \in 0..(BT - 1) : Row(bk, T, i_t * BT + jj) /= 0
                                                  /\ Row(bv, T, i_t * BT + jj) /= 0}}
        folded   == [buf EXCEPT ![FoldLevel] = buf[FoldLevel] \cup b_kv]
        decayed  == [i \in 0..(NumKV - 1) |->
                        IF KV_CREATED(i, MAX_LEVEL) THEN Decay(folded[i], b_g_last)
                        ELSE folded[i]]
    IN  Carry(decayed, CheckValue(chunk_index), MAX_LEVEL, 0)

\* state update of a full chunk: decay, fold into level 0, carry
UpdateKV(buf, bk, bv, bg, T, i_t, chunk_index, MAX_LEVEL) ==
    LET last_idx == Min2((i_t + 1) * BT, T) - 1
        b_g_last == bg[last_idx + 1]
        decayed  == [i \in 0..(NumKV - 1) |->
                        IF KV_CREATED(i, MAX_LEVEL) THEN Decay(buf[i], b_g_last) ELSE buf[i]]
        b_kv     == {<<Row(bk, T, i_t * BT + j), Row(bv, T, i_t * BT + j),
                       b_g_last - Row(bg, T, i_t * BT + j)>> :
                       j \in {jj \in 0..(BT - 1) : Row(bk, T, i_t * BT + jj) /= 0
                                                  /\ Row(bv, T, i_t * BT + jj) /= 0}}
        folded   == [decayed EXCEPT ![FoldLevel] = decayed[FoldLevel] \cup b_kv]
    IN  Carry(folded, CheckValue(chunk_index), MAX_LEVEL, 0)

\* variant: ht is allocated without the extra level
StoreHTNoExtraLevel(buf, off, T, MAX_LEVEL) ==
    LET chunk_index == off \div BT + T \div BT
    IN  [i \in 0..MAX_LEVEL |->
            IF MIN_LEVEL <= i /\ MAX_LEVEL >= i /\ Bit(chunk_index, i) THEN buf[i] ELSE {}]

\* kernel epilogue: level buffers written to ht (L_OUT = MAX_LEVEL + 2 levels)
StoreHT(buf, off, T, MAX_LEVEL) ==
    LET chunk_index == off \div BT + T \div BT
    IN  [i \in 0..(MAX_LEVEL + 1) |->
            IF MIN_LEVEL <= i /\ MAX_LEVEL >= i /\ Bit(chunk_index, i) THEN buf[i] ELSE {}]

\* variant: the carried rows are counted twice
NewOffsetRecount(off, T) == off + T

NewOffset(off, T) == (off \div BT) * BT + T

\* copy_last_chunk_kernel: rows of the trailing partial chunk
copy_last_chunk_kernel(buf, T) ==
    LET seq_offset == (T \div BT) * BT
    IN  [j \in 1..BT |-> Row(buf, T, seq_offset + (j - 1))]

ZeroOut == [q |-> 0, l |-> 0, g |-> 0, intra |-> {}]

\* ------------------------------------------------ chunk_gla: one head,
\* one key and one value dimension.  Tensors are flat over the B * T (or
\* packed) positions; a state or an output row is the set of its summands,
\* <<k, v, e>> for k^T v * exp(e) and <<q, k, v, e>> for scale * (q . k) *
\* v * exp(e); a score is the set of its summands <<q, k, e>>.
GLAMaxChunk == 64
GLAMinChunk == 16
SubBlock == 16

\* shape of the caller's test data
SeqStride == 100
PertMark == 5000
PertGate == -7

Max2(a, b) == IF a >= b THEN a ELSE b

next_power_of_2(n) ==
    CHOOSE p \in {2 ^ e : e \in 0..(IntBits - 1)} : p >= n /\ (p = 1 \/ p \div 2 < n)

\* variant: the chunk size is not raised to the smallest supported block
gla_chunk_size_unclamped(Tq) == Min2(GLAMaxChunk, next_power_of_2(Tq))

\* chunk_size of ChunkGLAFunction.forward, and BT of chunk_gla_fwd
gla_chunk_size(Tq) == Min2(GLAMaxChunk, Max2(GLAMinChunk, next_power_of_2(Tq)))

Seqs(a) == IF a.cu = Absent THEN a.B ELSE Len(a.cu) - 1

\* bos and T of sequence n, as every kernel computes them
bos(a, n) == IF a.cu = Absent THEN n * a.T ELSE a.cu[n + 1]

seq_len(a, n) == IF a.cu = Absent THEN a.T ELSE a.cu[n + 2] - a.cu[n + 1]

Total(a) == IF a.cu = Absent THEN a.B * a.T ELSE a.cu[Len(a.cu)]

SeqAt(a, p) == CHOOSE n \in 0..(Seqs(a) - 1) : bos(a, n) <= p /\ p < bos(a, n) + seq_len(a, n)

\* caller's tensors: the row of position t of sequence n; a.pert names the
\* positions <<n, lo, hi>> where this call's inputs differ from the base
Perturbed(a, n, t) ==
    a.pert /= Absent /\ n = a.pert[1] /\ t >= a.pert[2] /\ t <= a.pert[3]

GLAVal(a, n, t) == (IF Perturbed(a, n, t) THEN PertMark ELSE 0) + SeqStride * n + t + 1

GLAGate(a, n, t) == IF Perturbed(a, n, t) THEN PertGate ELSE -(1 + ((n + t) % 3))

\* q, k and v of the call, flat over the positions
GLAValues(a) ==
    [i \in 1..Total(a) |-> LET n == SeqAt(a, i - 1) IN GLAVal(a, n, i - 1 - bos(a, n))]

\* g of the call, flat over the positions
GLAGates(a) ==
    [i \in 1..Total(a) |-> LET n == SeqAt(a, i - 1) IN GLAGate(a, n, i - 1 - bos(a, n))]

\* initial_state [N, H, K, V]: one symbolic matrix per sequence
InitialState(a) ==
    IF a.s0 = Absent THEN Absent ELSE [n \in 0..(a.s0[1] - 1) |-> {<<-(n + 1), -(n + 1), 0>>}]

\* fla.ops.utils.cumsum.chunk_local_cumsum with cu_seqlens: inclusive
\* running sum from the first position of the chunk, inside each sequence
chunk_local_cumsum_gk(gg, a, bt) ==
    LET RECURSIVE Acc(_, _)
        Acc(b, t) == IF t % bt = 0 THEN gg[b + t + 1] ELSE Acc(b, t - 1) + gg[b + t + 1]
    IN  [i \in 1..Total(a) |-> LET n == SeqAt(a, i - 1) IN Acc(bos(a, n), i - 1 - bos(a, n))]

\* fla.ops.utils.prepare_chunk_indices: <<sequence, chunk>> of every chunk
RECURSIVE prepare_chunk_indices(_, _, _)
prepare_chunk_indices(a, bt, n) ==
    IF n >= Seqs(a) THEN <<>>
    ELSE [c \in 1..cdiv(seq_len(a, n), bt) |-> <<n, c - 1>>] \o prepare_chunk_indices(a, bt, n + 1)

\* variant: the dense grid numbers the chunks of every batch row from 0
ChunkGridPerRow(a, bt) ==
    IF a.cu /= Absent
    THEN LET ci == prepare_chunk_indices(a, bt, 0)
         IN  {[i_tg |-> j - 1, i_n |-> ci[j][1], i_t |-> ci[j][2]] : j \in 1..Len(ci)}
    ELSE {[i_tg |-> i_t, i_n |-> i_b, i_t |-> i_t] :
            i_b \in 0..(a.B - 1), i_t \in 0..(cdiv(a.T, bt) - 1)}

\* the chunk programs of a launch: sequence, chunk in the sequence, and the
\* global chunk index that addresses h
ChunkGrid(a, bt) ==
    IF a.cu /= Absent
    THEN LET ci == prepare_chunk_indices(a, bt, 0)
         IN  {[i_tg |-> j - 1, i_n |-> ci[j][1], i_t |-> ci[j][2]] : j \in 1..Len(ci)}
    ELSE {[i_tg |-> i_b * cdiv(a.T, bt) + i_t, i_n |-> i_b, i_t |-> i_t] :
            i_b \in 0..(a.B - 1), i_t \in 0..(cdiv(a.T, bt) - 1)}

\* first global chunk index of sequence n in h
RECURSIVE ChunksBefore(_, _, _)
ChunksBefore(a, bt, n) ==
    IF n = 0 THEN 0 ELSE ChunksBefore(a, bt, n - 1) + cdiv(seq_len(a, n - 1), bt)

\* fla.ops.common.chunk_h.chunk_fwd_h: h holds, per chunk, the state before
\* the chunk; the state after it is the decayed state plus the chunk's
\* k^T v rescaled to the chunk's last position; ht only when requested
chunk_fwd_h(kk, vv, gk, h0, output_final_state, a, bt) ==
    LET RECURSIVE State(_, _)
        State(n, c) ==
            IF c = 0 THEN (IF h0 = Absent THEN {} ELSE h0[n])
            ELSE LET b      == bos(a, n)
                     last   == Min2(c * bt, seq_len(a, n)) - 1
                     g_last == gk[b + last + 1]
                 IN  Decay(State(n, c - 1), g_last)
                     \cup {<<kk[b + j + 1], vv[b + j + 1], g_last - gk[b + j + 1]>> :
                             j \in ((c - 1) * bt)..last}
        At(x) == LET n == CHOOSE m \in 0..(Seqs(a) - 1) :
                            /\ ChunksBefore(a, bt, m) <= x
                            /\ x < ChunksBefore(a, bt, m + 1)
                 IN  State(n, x - ChunksBefore(a, bt, n))
    IN  [h  |-> [x \in 0..(ChunksBefore(a, bt, Seqs(a)) - 1) |-> At(x)],
         ht |-> IF output_final_state
                THEN [n \in 1..Seqs(a) |-> State(n - 1, cdiv(seq_len(a, n - 1), bt))]
                ELSE Absent]

\* q.new_empty(B, T, H, BT): memory as it was left
UninitA(junk) == IF junk = 0 THEN {} ELSE {<<-junk, -junk, junk>>}

new_empty(a, bt, junk) == [i \in 1..Total(a) |-> [c \in 0..(bt - 1) |-> UninitA(junk)]]

\* variant: the reference gate is read at the first position of the chunk
sub_inter_b_gn_chunk_start(gk, b, bt, i_t, i_i) == gk[b + i_t * bt + 1]

\* b_gn: the cumulative gate at the first position of query sub-block i_i
sub_inter_b_gn(gk, b, bt, i_t, i_i) == gk[b + i_t * bt + i_i * Min2(SubBlock, bt) + 1]

\* scores of a query sub-block against the strictly earlier key sub-blocks,
\* both rescaled to the first position of the query sub-block
chunk_gla_fwd_A_kernel_intra_sub_inter(qq, kk, gk, AA, a, bt) ==
    LET BC   == Min2(SubBlock, bt)
        grid == ChunkGrid(a, bt)
    IN  [i \in 1..Total(a) |-> [c \in 0..(bt - 1) |->
            LET n   == SeqAt(a, i - 1)
                b   == bos(a, n)
                t   == i - 1 - b
                i_t == t \div bt
                i_i == (t % bt) \div BC
                i_j == c \div BC
                kp  == i_t * bt + c
                gn  == sub_inter_b_gn(gk, b, bt, i_t, i_i)
            IN  IF (\E pr \in grid : pr.i_n = n /\ pr.i_t = i_t) /\ i_i > i_j
                THEN (IF kp < seq_len(a, n)
                      THEN {<<qq[i], kk[b + kp + 1], (gk[i] - gn) + (gn - gk[b + kp + 1])>>}
                      ELSE {})
                ELSE AA[i][c]]]

\* scores inside the diagonal sub-block, one key position at a time
chunk_gla_fwd_A_kernel_intra_sub_intra(qq, kk, gk, AA, a, bt) ==
    LET BC   == Min2(SubBlock, bt)
        grid == ChunkGrid(a, bt)
    IN  [i \in 1..Total(a) |-> [c \in 0..(bt - 1) |->
            LET n   == SeqAt(a, i - 1)
                b   == bos(a, n)
                t   == i - 1 - b
                i_t == t \div bt
                i_i == (t % bt) \div BC
                j   == c % BC
                kp  == i_t * bt + c
            IN  IF /\ \E pr \in grid : pr.i_n = n /\ pr.i_t = i_t
                   /\ c \div BC = i_i
                   /\ j < Min2(BC, seq_len(a, n) - i_t * bt - i_i * BC)
                THEN (IF (t % bt) % BC >= j
                      THEN {<<qq[i], kk[b + kp + 1], gk[i] - gk[b + kp + 1]>>}
                      ELSE {})
                ELSE AA[i][c]]]

\* variant: the scores are used without the causal mask m_s
chunk_gla_fwd_kernel_o_unmasked(qq, vv, gk, hh, AA, a, bt) ==
    LET grid == ChunkGrid(a, bt)
    IN  [i \in 1..Total(a) |->
            LET n   == SeqAt(a, i - 1)
                b   == bos(a, n)
                t   == i - 1 - b
                i_t == t \div bt
                pr  == CHOOSE x \in grid : x.i_n = n /\ x.i_t = i_t
            IN  UNION {{<<e[1], e[2], vv[b + i_t * bt + c + 1], e[3]>> : e \in AA[i][c]} :
                        c \in {x \in 0..(bt - 1) : i_t * bt + x < seq_len(a, n)}}
                \cup {<<qq[i], x[1], x[2], gk[i] + x[3]>> : x \in hh[pr.i_tg]}]

\* output: causally masked scores times values, plus the query rescaled by
\* exp(g) times the state before the chunk
chunk_gla_fwd_kernel_o(qq, vv, gk, hh, AA, a, bt) ==
    LET grid == ChunkGrid(a, bt)
    IN  [i \in 1..Total(a) |->
            LET n   == SeqAt(a, i - 1)
                b   == bos(a, n)
                t   == i - 1 - b
                i_t == t \div bt
                pr  == CHOOSE x \in grid : x.i_n = n /\ x.i_t = i_t
            IN  UNION {{<<e[1], e[2], vv[b + i_t * bt + c + 1], e[3]>> : e \in AA[i][c]} :
                        c \in {x \in 0..(t % bt) : i_t * bt + x < seq_len(a, n)}}
                \cup {<<qq[i], x[1], x[2], gk[i] + x[3]>> : x \in hh[pr.i_tg]}]

\* chunk_gla_fwd_intra_gk for K <= 256
chunk_gla_fwd_intra_gk(qq, kk, gk, a, bt, junk) ==
    chunk_gla_fwd_A_kernel_intra_sub_intra(qq, kk, gk,
        chunk_gla_fwd_A_kernel_intra_sub_inter(qq, kk, gk, new_empty(a, bt, junk), a, bt), a, bt)

\* ChunkGLAFunction.forward: the tensors of one call
chunk_gla_fwd(a, junk) ==
    LET bt == gla_chunk_size(a.T)
        qq == GLAValues(a)
        kk == GLAValues(a)
        vv == GLAValues(a)
        gk == chunk_local_cumsum_gk(GLAGates(a), a, bt)
        hs == chunk_fwd_h(kk, vv, gk, InitialState(a), a.ofs, a, bt)
        AA == chunk_gla_fwd_intra_gk(qq, kk, gk, a, bt, junk)
    IN  [g_cumsum |-> gk, A |-> AA, h |-> hs.h, ht |-> hs.ht,
         o |-> chunk_gla_fwd_kernel_o(qq, vv, gk, hs.h, AA, a, bt)]

\* ----------------------------------------------------------------- state
VARIABLES
    pc,                   \* "idle", "output", "update", "store", "raised", "entry", "done"
    gpat,                 \* gate pattern of the caller's input
    args,                 \* arguments of the call being checked
    res,                  \* result of the call's checks
    st,                   \* LogLinearAttentionState returned by the last call, or NONE
    consumed,             \* positions consumed by the returned calls of the chain
    ncalls,               \* calls of the chain
    hist,                 \* outputs returned by the calls of the chain
    T, q, k, v, g, l,     \* kernel inputs (carry-augmented)
    o, o_kv,              \* output rows, and the level buffers each chunk added
    kv,                   \* kv_0 .. kv_11
    offset, i_t, MAX_LEVEL, output_final_state,
    grads,                \* value returned by backward
    g_cumsum, h, ht, A,   \* chunk_gla_fwd: cumulative gates, states, final state, scores
    A_intra,              \* chunk_gla_fwd_intra_gk: per-key-block partial scores
    ran, stores           \* chunkwise_fwd_kernel grid: programs that ran, and what each stored

call_vars == <<T, q, k, v, g, l, o, o_kv, kv, offset, i_t, MAX_LEVEL, output_final_state>>

gla_vars == <<g_cumsum, h, ht, A, A_intra>>

grid_vars == <<ran, stores>>

vars == <<pc, gpat, args, res, st, consumed, ncalls, hist, call_vars, grads, gla_vars,
          grid_vars>>

NoGLA == g_cumsum = <<>> /\ h = <<>> /\ ht = Absent /\ A = <<>> /\ A_intra = <<>>

NoGrid == ran = {} /\ stores = <<>>

NoCall ==
    /\ T = 0 /\ q = <<>> /\ k = <<>> /\ v = <<>> /\ g = <<>> /\ l = <<>>
    /\ o = <<>> /\ o_kv = <<>> /\ kv = EmptyKV
    /\ offset = 0 /\ i_t = 0 /\ MAX_LEVEL = -1 /\ output_final_state = FALSE

\* the call's locals die when forward returns
ResetCall ==
    /\ T' = 0 /\ q' = <<>> /\ k' = <<>> /\ v' = <<>> /\ g' = <<>> /\ l' = <<>>
    /\ o' = <<>> /\ o_kv' = <<>> /\ kv' = EmptyKV
    /\ offset' = 0 /\ i_t' = 0 /\ MAX_LEVEL' = -1 /\ output_final_state' = FALSE

Init ==
    /\ pc = "idle"
    /\ gpat \in GatePatterns
    /\ args = [api |-> "none"] /\ res = Pending
    /\ st = NONE /\ consumed = 0 /\ ncalls = 0 /\ hist = <<>>
    /\ NoCall
    /\ grads = NONE
    /\ NoGLA
    /\ NoGrid

NT == cdiv(T, BT)

first_chunk_index == offset \div BT

chunk_index == first_chunk_index + i_t

\* chunk_log_linear_attn -> forward: checks, copy_input_kernel,
\* chunk_local_cumsum and the kernel prologue
Call(Tn, ofs, G, useInit, junk) ==
    LET base == IF useInit THEN consumed ELSE 0
        a    == [api |-> "chunk_log_linear_attn", B |-> 1, T |-> Tn, G |-> G, cu |-> Absent,
                 s0 |-> IF useInit THEN <<1>> ELSE Absent,
                 offs |-> IF useInit THEN <<st.offsets>> ELSE Absent, ofs |-> ofs]
        r    == chunk_log_linear_attn(a)
        off  == IF useInit THEN st.offsets ELSE 0
        Ta   == IF useInit THEN Tn + (off % BT) ELSE Tn
        In(F(_))    == [t \in 1..Tn |-> F(base + t - 1)]
        Aug(F(_), prev) == IF useInit THEN copy_input_kernel(In(F), prev, Tn, Ta, off, junk)
                           ELSE In(F)
        GRaw(p) == GIn(gpat, p)
        ML   == ForwardMaxLevel(a)
    IN  /\ pc = "idle"
        /\ useInit => (st /= NONE /\ ncalls < MaxCalls)
        /\ Tn = TooLong \/ base + Tn <= MaxTotal
        /\ args' = a
        /\ res' = r
        /\ grads' = grads /\ gpat' = gpat
        /\ UNCHANGED <<gla_vars, grid_vars>>
        /\ st' = IF useInit THEN st ELSE NONE
        /\ IF r.err /= OK
           THEN /\ pc' = "raised"
                /\ UNCHANGED <<consumed, ncalls, hist, call_vars>>
           ELSE /\ pc' = "output"
                /\ consumed' = base
                /\ ncalls' = IF useInit THEN ncalls + 1 ELSE 1
                /\ hist' = IF useInit THEN hist ELSE <<>>
                /\ T' = Ta
                /\ q' = Aug(QIn, IF useInit THEN st.q_prev ELSE <<>>)
                /\ k' = Aug(KIn, IF useInit THEN st.k_prev ELSE <<>>)
                /\ v' = Aug(VIn, IF useInit THEN st.v_prev ELSE <<>>)
                /\ l' = Aug(LIn, IF useInit THEN st.l_prev ELSE <<>>)
                /\ g' = chunk_local_cumsum(Aug(GRaw, IF useInit THEN st.g_prev ELSE <<>>), Ta)
                /\ o' = [t \in 1..Tn |-> ZeroOut]
                /\ o_kv' = <<>>
                /\ offset' = off
                /\ MAX_LEVEL' = ML
                /\ kv' = IF useInit THEN LoadKV(st.ht, off \div BT, ML, junk) ELSE EmptyKV
                /\ i_t' = 0
                /\ output_final_state' = ofs

\* variant: the output reads the level buffers after the chunk's own update
ChunkOutputAfterUpdate ==
    /\ pc = "output"
    /\ o' = StoreO(o, Len(o), q, k, v, g, l, T, i_t, offset)
    /\ o_kv' = Append(o_kv,
                      LET buf == IF IsFull(T, i_t)
                                 THEN UpdateKV(kv, k, v, g, T, i_t, chunk_index, MAX_LEVEL)
                                 ELSE kv
                      IN  [lv \in OutLevels(chunk_index, MAX_LEVEL) |-> buf[lv]])
    /\ pc' = "update"
    /\ UNCHANGED <<grid_vars, gpat, args, res, st, consumed, ncalls, hist, T, q, k, v, g, l, kv,
                   offset, i_t, MAX_LEVEL, output_final_state, grads, gla_vars>>

\* variant: the level buffers reach the output only when the final state
\* is requested
ChunkOutputWithState ==
    /\ pc = "output"
    /\ o' = StoreO(o, Len(o), q, k, v, g, l, T, i_t, offset)
    /\ o_kv' = Append(o_kv, IF output_final_state
                            THEN [lv \in OutLevels(chunk_index, MAX_LEVEL) |-> kv[lv]]
                            ELSE [lv \in OutLevels(chunk_index, MAX_LEVEL) |-> {}])
    /\ pc' = "update"
    /\ UNCHANGED <<grid_vars, gpat, args, res, st, consumed, ncalls, hist, T, q, k, v, g, l, kv,
                   offset, i_t, MAX_LEVEL, output_final_state, grads, gla_vars>>

\* loop body up to tl.store(p_o, ...)
ChunkOutput ==
    /\ pc = "output"
    /\ o' = StoreO(o, Len(o), q, k, v, g, l, T, i_t, offset)
    /\ o_kv' = Append(o_kv, [lv \in OutLevels(chunk_index, MAX_LEVEL) |-> kv[lv]])
    /\ pc' = "update"
    /\ UNCHANGED <<grid_vars, gpat, args, res, st, consumed, ncalls, hist, T, q, k, v, g, l, kv,
                   offset, i_t, MAX_LEVEL, output_final_state, grads, gla_vars>>

\* rest of the loop body: the recurrent state update
ChunkUpdate ==
    /\ pc = "update"
    /\ kv' = IF IsFull(T, i_t)
             THEN UpdateKV(kv, k, v, g, T, i_t, chunk_index, MAX_LEVEL)
             ELSE kv
    /\ i_t' = i_t + 1
    /\ pc' = IF i_t + 1 < NT THEN "output" ELSE "store"
    /\ UNCHANGED <<grid_vars, gpat, args, res, st, consumed, ncalls, hist, T, q, k, v, g, l, o, o_kv,
                   offset, MAX_LEVEL, output_final_state, grads, gla_vars>>

FinalState ==
    [ht |-> StoreHT(kv, offset, T, MAX_LEVEL),
     offsets |-> NewOffset(offset, T),
     q_prev |-> copy_last_chunk_kernel(q, T),
     k_prev |-> copy_last_chunk_kernel(k, T),
     v_prev |-> copy_last_chunk_kernel(v, T),
     g_prev |-> copy_last_chunk_kernel(g, T),
     l_prev |-> copy_last_chunk_kernel(l, T)]

\* kernel epilogue, copy_last_chunk_kernel and the return of forward
Finish ==
    /\ pc = "store"
    /\ st' = IF output_final_state THEN FinalState ELSE NONE
    /\ hist' = Append(hist, [o |-> o, o_kv |-> o_kv, r |-> offset % BT])
    /\ consumed' = consumed + Len(o)
    /\ pc' = "idle"
    /\ ResetCall
    /\ UNCHANGED <<grid_vars, gpat, args, res, ncalls, grads, gla_vars>>

\* variant: backward returns the incoming gradients
BackwardSilent(do, dht) ==
    /\ pc = "idle"
    /\ ncalls >= 1
    /\ grads = NONE
    /\ args' = [api |-> "backward", do |-> do, dht |-> dht]
    /\ res' = Passed
    /\ grads' = [dq |-> do, dk |-> do, dv |-> do]
    /\ pc' = "idle"
    /\ UNCHANGED <<grid_vars, gpat, st, consumed, ncalls, hist, call_vars, gla_vars>>

\* ChunkLogLinearAttentionFunction.backward
Backward(do, dht) ==
    /\ pc = "idle"
    /\ ncalls >= 1
    /\ args' = [api |-> "backward", do |-> do, dht |-> dht]
    /\ res' = Raised(NotImplementedMessage, TRUE)
    /\ grads' = NONE
    /\ pc' = "raised"
    /\ UNCHANGED <<grid_vars, gpat, st, consumed, ncalls, hist, call_vars, gla_vars>>

\* ------------------------------------------------------ chunk_gla calls
MaxSeqs == 2

GLALens == {1, 5, 16, 17, 24}
PertFrom == {1, 16, 17}

PertSpace(N, Tn) ==
    {Absent} \cup {<<n, lo, hi>> : n \in {0, N - 1}, lo \in {x \in PertFrom : x < Tn},
                                   hi \in {x \in PertFrom : x < Tn} \cup {Tn - 1}}

\* arguments of a call on N sequences of Tn positions, dense [N, Tn, ...]
\* or packed [1, N * Tn, ...] with cu_seqlens
GLAArgs(dense, N, Tn, useInit, ofs, pert) ==
    [api |-> "chunk_gla", B |-> IF dense THEN N ELSE 1, T |-> IF dense THEN Tn ELSE N * Tn,
     G |-> 1, cu |-> IF dense THEN Absent ELSE [i \in 1..(N + 1) |-> (i - 1) * Tn],
     s0 |-> IF useInit THEN <<N>> ELSE Absent, offs |-> Absent, Hk |-> 1, Hv |-> 1,
     ofs |-> ofs, pert |-> pert]

\* chunk_gla -> ChunkGLAFunction.forward
GLACall(dense, N, Tn, useInit, ofs, pert) ==
    LET a == GLAArgs(dense, N, Tn, useInit, ofs, pert)
    IN  /\ pc = "idle" /\ args.api = "none" /\ gpat = 1
        /\ pert /= Absent => pert[2] <= pert[3]
        /\ args' = a
        /\ res' = chunk_gla(a)
        /\ pc' = IF res'.err = OK THEN "gla_cumsum" ELSE "raised"
        /\ T' = a.T
        /\ q' = GLAValues(a) /\ k' = GLAValues(a) /\ v' = GLAValues(a)
        /\ g' = GLAGates(a)
        /\ output_final_state' = ofs
        /\ UNCHANGED <<grid_vars, gpat, st, consumed, ncalls, hist, l, o, o_kv, kv, offset, i_t,
                       MAX_LEVEL, grads, gla_vars>>

\* chunk_gla_fwd: g_cumsum = chunk_local_cumsum(g, BT, cu_seqlens)
GLACumsum ==
    /\ pc = "gla_cumsum"
    /\ g_cumsum' = chunk_local_cumsum_gk(g, args, gla_chunk_size(T))
    /\ pc' = "gla_h"
    /\ UNCHANGED <<grid_vars, gpat, args, res, st, consumed, ncalls, hist, call_vars, grads, h, ht, A,
                   A_intra>>

\* chunk_gla_fwd: h, ht = chunk_fwd_h(...)
GLAFwdH ==
    LET hs == chunk_fwd_h(k, v, g_cumsum, InitialState(args), output_final_state, args,
                          gla_chunk_size(T))
    IN  /\ pc = "gla_h"
        /\ h' = hs.h /\ ht' = hs.ht
        /\ pc' = "gla_sub_inter"
        /\ UNCHANGED <<grid_vars, gpat, args, res, st, consumed, ncalls, hist, call_vars, grads,
                       g_cumsum, A, A_intra>>

\* chunk_gla_fwd_intra_gk: allocation of A and the first launch
GLASubInter(junk) ==
    /\ pc = "gla_sub_inter"
    /\ A' = chunk_gla_fwd_A_kernel_intra_sub_inter(q, k, g_cumsum,
                new_empty(args, gla_chunk_size(T), junk), args, gla_chunk_size(T))
    /\ pc' = "gla_sub_intra"
    /\ UNCHANGED <<grid_vars, gpat, args, res, st, consumed, ncalls, hist, call_vars, grads,
                   g_cumsum, h, ht, A_intra>>

\* chunk_gla_fwd_intra_gk: the second launch
GLASubIntra ==
    /\ pc = "gla_sub_intra"
    /\ A' = chunk_gla_fwd_A_kernel_intra_sub_intra(q, k, g_cumsum, A, args, gla_chunk_size(T))
    /\ pc' = "gla_o"
    /\ UNCHANGED <<grid_vars, gpat, args, res, st, consumed, ncalls, hist, call_vars, grads,
                   g_cumsum, h, ht, A_intra>>

\* chunk_gla_fwd_o_gk and the return of o, ht
GLAOutput ==
    /\ pc = "gla_o"
    /\ o' = chunk_gla_fwd_kernel_o(q, v, g_cumsum, h, A, args, gla_chunk_size(T))
    /\ hist' = <<[o |-> o', ht |-> ht]>>
    /\ pc' = "gla_done"
    /\ UNCHANGED <<grid_vars, gpat, args, res, st, consumed, ncalls, T, q, k, v, g, l, o_kv, kv,
                   offset, i_t, MAX_LEVEL, output_final_state, grads, gla_vars>>

Next ==
    \/ \E Tn \in CallLens \cup {TooLong}, ofs \in BOOLEAN, G \in {1, 2},
          useInit \in BOOLEAN, junk \in JunkVals :
            \* calls that forward rejects are tried at the start of a chain
            \* and at its first resumption
            /\ (G /= 1 \/ Tn = TooLong) => ncalls <= 1
            \* a call without initial state starts a new chain, which is the
            \* chain that starts in the initial state
            /\ ~useInit => ncalls = 0
            /\ Call(Tn, ofs, G, useInit, junk)
    \/ ChunkOutput
    \/ ChunkUpdate
    \/ Finish
    \/ \E do \in {0, 1}, dht \in {0, 1} : Backward(do, dht)
    \/ \E dense \in BOOLEAN, N \in 1..MaxSeqs, Tn \in GLALens, useInit \in BOOLEAN,
          ofs \in BOOLEAN : \E pert \in PertSpace(N, Tn) :
            \* perturbed inputs are tried on calls with an initial state
            /\ pert /= Absent => (useInit /\ ~ofs)
            /\ GLACall(dense, N, Tn, useInit, ofs, pert)
    \/ GLACumsum
    \/ GLAFwdH
    \/ \E junk \in JunkVals : GLASubInter(junk)
    \/ GLASubIntra
    \/ GLAOutput

Spec == Init /\ [][Next]_vars

\* ------------------------------------------------- entry checks as a run
MaxB == 2
MaxN == 2

Capacity == BT * (2 ^ (LevelCap + 1))

GuardLens == {1, BT, Capacity - 1, Capacity, Capacity + 1}
GuardOffs == {0, 1, BT, Capacity - 1}
GuardHeads == {<<1, 1>>, <<2, 2>>, <<2, 1>>}

RECURSIVE Tuples(_, _)
Tuples(S, n) == IF n = 0 THEN {<<>>} ELSE {Append(t, x) : t \in Tuples(S, n - 1), x \in S}

RECURSIVE CuOf(_)
CuOf(lens) == IF lens = <<>> THEN <<0>>
              ELSE LET c == CuOf(SubSeq(lens, 1, Len(lens) - 1))
                   IN  Append(c, c[Len(c)] + lens[Len(lens)])

CuSpace == {Absent} \cup {CuOf(t) : t \in UNION {Tuples(GuardLens, n) : n \in 1..MaxN}}

OffsSpace == {Absent} \cup UNION {Tuples(GuardOffs, n) : n \in 1..MaxN}

\* arguments tried on the entry point api
ArgSpace(api) ==
    IF api = "chunk_gla"
    THEN {[api |-> api, B |-> B, T |-> IF cu = Absent THEN Tn ELSE cu[Len(cu)], G |-> 1,
           cu |-> cu, s0 |-> s0, offs |-> Absent, Hk |-> hh[1], Hv |-> hh[2]] :
             B \in 1..MaxB, Tn \in GuardLens, cu \in CuSpace,
             s0 \in {Absent} \cup {<<n>> : n \in 1..(MaxN + 1)}, hh \in GuardHeads}
    ELSE {[api |-> api, B |-> B, T |-> IF cu = Absent THEN Tn ELSE cu[Len(cu)],
           G |-> G, cu |-> cu, s0 |-> IF offs = Absent THEN Absent ELSE <<Len(offs)>>,
           offs |-> offs] :
             B \in 1..MaxB, Tn \in GuardLens, G \in {1, 2}, cu \in CuSpace, offs \in OffsSpace}

InitEntry ==
    /\ pc = "entry"
    /\ gpat \in {1}
    /\ args \in ArgSpace("chunk_gla") \cup ArgSpace("chunk_log_linear_attn") /\ res = Pending
    /\ st = NONE /\ consumed = 0 /\ ncalls = 0 /\ hist = <<>>
    /\ NoCall
    /\ grads = NONE
    /\ NoGLA
    /\ NoGrid

\* chunk_gla up to ChunkGLAFunction.apply
EnterGLA ==
    /\ pc = "entry"
    /\ args.api = "chunk_gla"
    /\ res' = chunk_gla(args)
    /\ pc' = IF res'.err = OK THEN "done" ELSE "raised"
    /\ UNCHANGED <<grid_vars, gpat, args, st, consumed, ncalls, hist, call_vars, grads, gla_vars>>

\* chunk_log_linear_attn and forward up to the capacity check
EnterLogLinear ==
    /\ pc = "entry"
    /\ args.api = "chunk_log_linear_attn"
    /\ res' = chunk_log_linear_attn(args)
    /\ pc' = IF res'.err = OK THEN "done" ELSE "raised"
    /\ UNCHANGED <<grid_vars, gpat, args, st, consumed, ncalls, hist, call_vars, grads, gla_vars>>

NextEntry == EnterGLA \/ EnterLogLinear

SpecEntry == InitEntry /\ [][NextEntry]_vars

\* --------------------------------------- chunkwise_fwd_kernel: the grid
\* One program instance per (key block, sequence, head).  A location is a
\* buffer name and the element offset the kernel's pointer arithmetic gives.
BLOCK_K == 64

BK == BLOCK_K

GridSeqs == {1, 2}
GridHeads == {1, 2}
GridKeys == {64, 128}
GridLens == {1, 65}
GridOffsets == {0, 1}
GridV == 1

GridArgs(B, H, K, Tn, useInit, off, ofs) ==
    [api |-> "chunk_log_linear_attn", B |-> B, T |-> Tn, G |-> 1, H |-> H, K |-> K,
     V |-> GridV, cu |-> Absent,
     s0 |-> IF useInit THEN <<B>> ELSE Absent,
     offs |-> IF useInit THEN [i \in 1..B |-> off] ELSE Absent,
     ofs |-> ofs]

GridArgSpace ==
    {GridArgs(B, H, K, Tn, FALSE, 0, ofs) :
        B \in GridSeqs, H \in GridHeads, K \in GridKeys, Tn \in GridLens, ofs \in BOOLEAN}
    \cup {GridArgs(B, H, K, Tn, TRUE, off, ofs) :
        B \in GridSeqs, H \in GridHeads, K \in GridKeys, Tn \in GridLens,
        off \in GridOffsets, ofs \in BOOLEAN}

\* grid = (cdiv(K, BK), B * H)
Programs(a) ==
    {[i_k |-> x, i_n |-> i_nh \div a.H, i_h |-> i_nh % a.H] :
        x \in 0..(cdiv(a.K, BK) - 1), i_nh \in 0..(a.B * a.H - 1)}

\* T as the kernel receives it: forward adds the carried rows
KernelT(a) == IF a.offs /= Absent THEN a.T + (a.offs[1] % BT) ELSE a.T

\* rows of the kernel's inputs (carried rows first) whose output row passes
\* the boundary check of tl.store(p_o, ...)
OStoredFrom(a, p) ==
    LET Tk  == KernelT(a)
        off == IF a.offs /= Absent THEN a.offs[p.i_n + 1] ELSE 0
        output_offset == -1 * (off % BT)
    IN  {ka \in 0..(cdiv(Tk, BT) * BT - 1) : ka + output_offset >= 0 /\ ka + output_offset < Tk}

\* element offset in o that p_o gives to column c of its row r
OAddress(a, p, r, c) ==
    ((p.i_n * KernelT(a) * a.H + p.i_h) * (a.K \div BK) + p.i_k) * a.V
        + r * (a.H * (a.K \div BK) * a.V) + c

\* element offset of o[n, t, i_h, i_k, c] in the buffer forward allocates,
\* torch.zeros((B, T, H, K // BLOCK_K, V))
OIndex(a, n, t, ih, ik, c) ==
    (((n * a.T + t) * a.H + ih) * (a.K \div BLOCK_K) + ik) * a.V + c

\* elements of o stored by the chunk loop of one program (p_o and tl.store
\* with boundary check)
StoresO(a, p) ==
    LET off  == IF a.offs /= Absent THEN a.offs[p.i_n + 1] ELSE 0
        output_offset == -1 * (off % BT)
    IN  {<<"o", OAddress(a, p, ka + output_offset, c)>> :
            ka \in OStoredFrom(a, p), c \in 0..(a.V - 1)}

\* elements of ht stored by the epilogue of one program
StoresHT(a, p) ==
    LET Tk    == KernelT(a)
        off   == IF a.offs /= Absent THEN a.offs[p.i_n + 1] ELSE 0
        ci    == off \div BT + Tk \div BT
        ML    == ForwardMaxLevel(a)
        L_OUT == ML + 2
        lvs   == {lv \in 0..(NumKV - 1) : MIN_LEVEL <= lv /\ ML >= lv /\ Bit(ci, lv)}
        krows == {x \in (p.i_k * BK)..(p.i_k * BK + BK - 1) : x < a.K}
    IN  IF a.ofs
        THEN {<<"ht", ((p.i_n * L_OUT + lv) * a.H + p.i_h) * a.K * a.V + x * a.V + c>> :
                 lv \in lvs, x \in krows, c \in 0..(a.V - 1)}
        ELSE {}

\* tl.store(new_offsets + i_n, ...) at the end of the epilogue
StoresNewOffsets(a, p) == IF a.ofs THEN {<<"new_offsets", p.i_n>>} ELSE {}

KernelStores(a, p) == StoresO(a, p) \cup StoresHT(a, p) \cup StoresNewOffsets(a, p)

InitGrid ==
    /\ pc = "launch"
    /\ gpat \in {1}
    /\ args \in {a \in GridArgSpace : chunk_log_linear_attn(a).err = OK}
    /\ res = Passed
    /\ st = NONE /\ consumed = 0 /\ ncalls = 0 /\ hist = <<>>
    /\ NoCall
    /\ grads = NONE
    /\ NoGLA
    /\ NoGrid

\* one program instance of chunkwise_fwd_kernel[grid] runs to completion
Program(i_k, i_n, i_h) ==
    LET p == [i_k |-> i_k, i_n |-> i_n, i_h |-> i_h]
        W == KernelStores(args, p)
    IN  /\ pc = "launch"
        /\ p \in Programs(args) \ ran
        /\ ran' = ran \cup {p}
        /\ stores' = (p :> W) @@ stores
        /\ UNCHANGED <<pc, gpat, args, res, st, consumed, ncalls, hist, call_vars, grads,
                       gla_vars>>

\* the launch is over: forward goes on to copy_last_chunk_kernel and returns
GridReturn ==
    /\ pc = "launch"
    /\ ran = Programs(args)
    /\ pc' = "returned"
    /\ UNCHANGED <<grid_vars, gpat, args, res, st, consumed, ncalls, hist, call_vars, grads,
                   gla_vars>>

NextGrid ==
    \/ \E p \in Programs(args) : Program(p.i_k, p.i_n, p.i_h)
    \/ GridReturn

SpecGrid == InitGrid /\ [][NextGrid]_vars

\* ------------------------------------- chunk_gla: the derived block sizes
\* Every helper of chunk_gla recomputes BT from the chunk_size it is handed
\* and from T; the intra-chunk helpers derive BC and NC from BT.
MaxGLALen == 130

\* BT of a helper called with chunk_size
helper_BT(chunk_size, Tq) == Min2(chunk_size, Max2(GLAMinChunk, next_power_of_2(Tq)))

\* BC and NC of chunk_gla_fwd_intra_gk and chunk_gla_bwd_dqk_intra
helper_BC(bt) == Min2(SubBlock, bt)

helper_NC(bt) == cdiv(bt, helper_BC(bt))

\* the helpers, in call order; the first of each pass calls the others
\* with chunk_size = BT
FwdHelpers == <<"chunk_gla_fwd", "chunk_gla_fwd_intra_gk", "chunk_gla_fwd_o_gk">>

BwdHelpers == <<"chunk_gla_bwd", "chunk_gla_bwd_dv", "chunk_gla_bwd_dA",
                "chunk_gla_bwd_dqk_intra", "chunk_gla_bwd_dqkg">>

InitSizes ==
    /\ pc = "sizes"
    /\ gpat \in {1}
    /\ args = [api |-> "sizes"] /\ res = Pending
    /\ st = NONE /\ consumed = 0 /\ ncalls = 0 /\ hist = <<>>
    /\ T \in 1..MaxGLALen
    /\ q = <<>> /\ k = <<>> /\ v = <<>> /\ g = <<>> /\ l = <<>>
    /\ o = <<>> /\ o_kv = <<>> /\ kv = EmptyKV
    /\ offset = 0 /\ i_t = 0 /\ MAX_LEVEL = -1 /\ output_final_state = FALSE
    /\ grads = NONE
    /\ NoGLA
    /\ NoGrid

\* ChunkGLAFunction.forward derives chunk_size and keeps it in ctx
SizeForward ==
    /\ pc = "sizes"
    /\ res' = [chunk_size |-> gla_chunk_size(T)]
    /\ pc' = "size_fwd"
    /\ UNCHANGED <<grid_vars, gpat, args, st, consumed, ncalls, hist, call_vars, grads, gla_vars>>

\* the sizes a helper derives from the chunk_size it is called with
SizeHelper(names, first) ==
    LET n      == Len(hist) + 2 - first
        passed == IF n = 1 THEN res.chunk_size ELSE hist[first].BT
        bt     == helper_BT(passed, T)
    IN  /\ n \in 1..Len(names)
        /\ hist' = Append(hist, [helper |-> names[n], BT |-> bt, BC |-> helper_BC(bt),
                                 NC |-> helper_NC(bt)])

\* chunk_gla_fwd and the helpers it calls
SizeFwdHelper ==
    /\ pc = "size_fwd"
    /\ SizeHelper(FwdHelpers, 1)
    /\ pc' = IF Len(hist') = Len(FwdHelpers) THEN "size_bwd" ELSE "size_fwd"
    /\ UNCHANGED <<grid_vars, gpat, args, res, st, consumed, ncalls, call_vars, grads, gla_vars>>

\* ChunkGLAFunction.backward: chunk_gla_bwd with ctx.chunk_size, and the
\* helpers it calls
SizeBwdHelper ==
    /\ pc = "size_bwd"
    /\ SizeHelper(BwdHelpers, Len(FwdHelpers) + 1)
    /\ pc' = IF Len(hist') = Len(FwdHelpers) + Len(BwdHelpers) THEN "size_done" ELSE "size_bwd"
    /\ UNCHANGED <<grid_vars, gpat, args, res, st, consumed, ncalls, call_vars, grads, gla_vars>>

NextSizes == SizeForward \/ SizeFwdHelper \/ SizeBwdHelper

SpecSizes == InitSizes /\ [][NextSizes]_vars

\* ----------------------- chunk_gla_fwd_intra_gk over K key dimensions
\* One head.  A score is the sum over key dimensions d of the products
\* q[row, d] * k[key, d] * exp(g[row, d] - g[key, d]) * scale; it is kept
\* as the list of the ranges <<lo, hi>> of dimensions it sums, a dimension
\* summed twice being listed twice; the zero score is the empty list.  A
\* program is one instance of a launch grid.
SingleKernelMaxK == 256
SplitBK == 128

SplitKeys == {256, 257}
\* <<sequences, positions per sequence>>
SplitShapes == {<<1, 1>>, <<2, 1>>, <<1, 16>>, <<1, 17>>}

ZeroScore == <<>>

\* ranges in increasing order, adjacent ranges joined
RECURSIVE Canon(_)
Canon(rs) ==
    IF Len(rs) <= 1 THEN rs
    ELSE LET m    == CHOOSE x \in DOMAIN rs : \A y \in DOMAIN rs : rs[x][1] <= rs[y][1]
             rest == Canon(SubSeq(rs, 1, m - 1) \o SubSeq(rs, m + 1, Len(rs)))
         IN  IF rest[1][1] = rs[m][2] + 1
             THEN <<<<rs[m][1], rest[1][2]>>>> \o Tail(rest)
             ELSE <<rs[m]>> \o rest

AddScores(x, y) == Canon(x \o y)

\* the sum over o_k = i_k * BK + arange(BK) under the mask m_k = o_k < K
KeyDims(i_k, bk, K) ==
    IF i_k * bk < K THEN <<<<i_k * bk, Min2((i_k + 1) * bk, K) - 1>>>> ELSE ZeroScore

\* new_empty: memory as it was left
UninitScore(junk) == IF junk = 0 THEN ZeroScore ELSE <<<<-junk, -junk>>>>

IntraBC(a) == Min2(SubBlock, gla_chunk_size(a.T))

IntraNC(a) == cdiv(gla_chunk_size(a.T), IntraBC(a))

IntraNK(a) == cdiv(a.K, Min2(SplitBK, next_power_of_2(a.K)))

\* variant: the merge stops one key block early
MergeBlocksButLast(a) == 0..(IntraNK(a) - 2)

\* for i_k in range(0, NK)
MergeBlocks(a) == 0..(IntraNK(a) - 1)

\* the program instances of the four launches
SubInterPrograms(a) ==
    {[kernel |-> "sub_inter", i_k |-> 0, i_t |-> pr.i_tg, i_n |-> pr.i_n, i_c |-> c] :
        pr \in ChunkGrid(a, gla_chunk_size(a.T)), c \in 0..(IntraNC(a) * IntraNC(a) - 1)}

SubIntraPrograms(a) ==
    {[kernel |-> "sub_intra", i_k |-> 0, i_t |-> pr.i_tg, i_n |-> pr.i_n, i_c |-> c] :
        pr \in ChunkGrid(a, gla_chunk_size(a.T)), c \in 0..(IntraNC(a) - 1)}

SplitPrograms(a) ==
    {[kernel |-> "split", i_k |-> x, i_t |-> pr.i_tg, i_n |-> pr.i_n, i_c |-> c] :
        x \in 0..(IntraNK(a) - 1), pr \in ChunkGrid(a, gla_chunk_size(a.T)),
        c \in 0..(IntraNC(a) - 1)}

MergePrograms(a) ==
    {[kernel |-> "merge", i_k |-> 0, i_t |-> pr.i_tg, i_n |-> pr.i_n, i_c |-> c] :
        pr \in ChunkGrid(a, gla_chunk_size(a.T)), c \in 0..(IntraNC(a) - 1)}

\* chunk of the sequence that program p works on
ChunkOf(a, p) ==
    (CHOOSE pr \in ChunkGrid(a, gla_chunk_size(a.T)) : pr.i_tg = p.i_t /\ pr.i_n = p.i_n).i_t

\* chunk_gla_fwd_A_kernel_intra_sub_inter: the entries <<position, column>>
\* of A that program p stores, and the value of each
SubInterStores(a, p) ==
    LET bt  == gla_chunk_size(a.T)
        BC  == IntraBC(a)
        jt == ChunkOf(a, p)
        i_i == p.i_c \div IntraNC(a)
        i_j == p.i_c % IntraNC(a)
        Ts  == seq_len(a, p.i_n)
    IN  IF jt * bt + i_i * BC >= Ts \/ i_i <= i_j THEN {}
        ELSE {<<bos(a, p.i_n) + jt * bt + i_i * BC + x + 1, i_j * BC + j>> :
                x \in {y \in 0..(BC - 1) : jt * bt + i_i * BC + y < Ts},
                j \in {y \in 0..(BC - 1) : i_j * BC + y < bt}}

SubInterValue(a, p, loc) ==
    LET jt == ChunkOf(a, p)
    IN  IF jt * gla_chunk_size(a.T) + loc[2] < seq_len(a, p.i_n)
        THEN <<<<0, a.K - 1>>>> ELSE ZeroScore

\* diagonal sub-block i_i of a chunk: rows under the mask m_A and the
\* columns of the loop for j in range(0, min(BC, T - i_t * BT - i_i * BC))
DiagRows(a, p) ==
    LET base == ChunkOf(a, p) * gla_chunk_size(a.T) + p.i_c * IntraBC(a)
    IN  IF base >= seq_len(a, p.i_n) THEN {}
        ELSE {x \in 0..(IntraBC(a) - 1) : base + x < seq_len(a, p.i_n)}

DiagCols(a, p) ==
    LET base == ChunkOf(a, p) * gla_chunk_size(a.T) + p.i_c * IntraBC(a)
    IN  IF base >= seq_len(a, p.i_n) THEN {}
        ELSE 0..(Min2(IntraBC(a), seq_len(a, p.i_n) - base) - 1)

\* flat position (1-based) of row x of the sub-block of program p
DiagPos(a, p, x) ==
    bos(a, p.i_n) + ChunkOf(a, p) * gla_chunk_size(a.T) + p.i_c * IntraBC(a) + x + 1

\* chunk_gla_fwd_A_kernel_intra_sub_intra (K <= 256, BK = next_power_of_2(K))
SubIntraStores(a, p) ==
    {<<DiagPos(a, p, x), p.i_c * IntraBC(a) + j>> : x \in DiagRows(a, p), j \in DiagCols(a, p)}

SubIntraValue(a, p, loc) ==
    LET x == loc[1] - DiagPos(a, p, 0)
        j == loc[2] - p.i_c * IntraBC(a)
    IN  IF x >= j THEN KeyDims(0, next_power_of_2(a.K), a.K) ELSE ZeroScore

\* chunk_gla_fwd_A_kernel_intra_sub_intra_split: entries <<position, j>> of
\* A_intra[i_k] that program p stores
SplitStores(a, p) ==
    {<<DiagPos(a, p, x), j>> : x \in DiagRows(a, p), j \in DiagCols(a, p)}

SplitValue(a, p, loc) ==
    LET x == loc[1] - DiagPos(a, p, 0)
    IN  IF x >= loc[2] THEN KeyDims(p.i_k, SplitBK, a.K) ELSE ZeroScore

\* chunk_gla_fwd_A_kernel_intra_sub_intra_merge: the [BC, BC] block is
\* loaded from every key block with a boundary check on the rows, added up
\* and stored with a boundary check
RECURSIVE SumScores(_, _, _, _)
SumScores(AI, blocks, pos, j) ==
    IF blocks = {} THEN ZeroScore
    ELSE LET x == CHOOSE y \in blocks : TRUE
         IN  AddScores(AI[x][pos][j], SumScores(AI, blocks \ {x}, pos, j))

MergeStores(a, p) ==
    {<<DiagPos(a, p, x), p.i_c * IntraBC(a) + j>> :
        x \in DiagRows(a, p),
        j \in {y \in 0..(IntraBC(a) - 1) : p.i_c * IntraBC(a) + y < gla_chunk_size(a.T)}}

MergeValue(a, p, AI, loc) == SumScores(AI, MergeBlocks(a), loc[1], loc[2] - p.i_c * IntraBC(a))

\* arguments: N sequences of Tn positions, dense or packed, K key dimensions
SplitArgs(dense, N, Tn, K) == GLAArgs(dense, N, Tn, FALSE, FALSE, Absent) @@ [K |-> K]

InitSplit ==
    /\ pc = "intra_gk"
    /\ gpat \in {1}
    /\ args \in {SplitArgs(dense, sh[1], sh[2], K) :
                    dense \in BOOLEAN, sh \in SplitShapes, K \in SplitKeys}
    /\ res = Passed
    /\ st = NONE /\ consumed = 0 /\ ncalls = 0 /\ hist = <<>>
    /\ NoCall
    /\ grads = NONE
    /\ NoGLA
    /\ NoGrid

\* A = q.new_empty(B, T, H, BT) and the launch of the sub_inter kernel
IntraSubInter(junk) ==
    \E bt \in {gla_chunk_size(args.T)},
       W \in {[p \in SubInterPrograms(args) |-> SubInterStores(args, p)]} :
        /\ pc = "intra_gk"
        /\ A' = [i \in 1..Total(args) |-> [c \in 0..(bt - 1) |->
                    IF \E p \in DOMAIN W : <<i, c>> \in W[p]
                    THEN SubInterValue(args, CHOOSE p \in DOMAIN W : <<i, c>> \in W[p], <<i, c>>)
                    ELSE UninitScore(junk)]]
        /\ stores' = W
        /\ ran' = SubInterPrograms(args)
        /\ pc' = IF args.K <= SingleKernelMaxK THEN "sub_intra" ELSE "split_alloc"
        /\ UNCHANGED <<gpat, args, res, st, consumed, ncalls, hist, call_vars, grads,
                       g_cumsum, h, ht, A_intra>>

\* one program of the sub_intra launch
IntraSubIntra(p) ==
    \E W \in {SubIntraStores(args, p)} :
        /\ pc = "sub_intra"
        /\ p \in SubIntraPrograms(args) \ ran
        /\ A' = [i \in DOMAIN A |-> [c \in DOMAIN A[i] |->
                    IF <<i, c>> \in W THEN SubIntraValue(args, p, <<i, c>>) ELSE A[i][c]]]
        /\ stores' = (p :> W) @@ stores
        /\ ran' = ran \cup {p}
        /\ UNCHANGED <<pc, gpat, args, res, st, consumed, ncalls, hist, call_vars, grads,
                       g_cumsum, h, ht, A_intra>>

\* A_intra = q.new_empty(NK, B, T, H, BC)
SplitAlloc(junk) ==
    /\ pc = "split_alloc"
    /\ A_intra' = [x \in 0..(IntraNK(args) - 1) |-> [i \in 1..Total(args) |->
                      [j \in 0..(IntraBC(args) - 1) |-> UninitScore(junk)]]]
    /\ pc' = "split"
    /\ UNCHANGED <<grid_vars, gpat, args, res, st, consumed, ncalls, hist, call_vars, grads,
                   g_cumsum, h, ht, A>>

\* one program of the split launch
SplitProgram(p) ==
    \E W \in {SplitStores(args, p)} :
        /\ pc = "split"
        /\ p \in SplitPrograms(args) \ ran
        /\ A_intra' = [A_intra EXCEPT ![p.i_k] = [i \in DOMAIN @ |-> [j \in DOMAIN @[i] |->
                          IF <<i, j>> \in W THEN SplitValue(args, p, <<i, j>>) ELSE @[i][j]]]]
        /\ ran' = ran \cup {p}
        /\ UNCHANGED <<pc, stores, gpat, args, res, st, consumed, ncalls, hist, call_vars, grads,
                       g_cumsum, h, ht, A>>

\* the merge launch is queued behind the split launch
SplitDone ==
    /\ pc = "split"
    /\ SplitPrograms(args) \subseteq ran
    /\ pc' = "merge"
    /\ UNCHANGED <<grid_vars, gpat, args, res, st, consumed, ncalls, hist, call_vars, grads,
                   gla_vars>>

\* one program of the merge launch
MergeProgram(p) ==
    \E W \in {MergeStores(args, p)} :
        /\ pc = "merge"
        /\ p \in MergePrograms(args) \ ran
        /\ A' = [i \in DOMAIN A |-> [c \in DOMAIN A[i] |->
                    IF <<i, c>> \in W THEN MergeValue(args, p, A_intra, <<i, c>>) ELSE A[i][c]]]
        /\ stores' = (p :> W) @@ stores
        /\ ran' = ran \cup {p}
        /\ UNCHANGED <<pc, gpat, args, res, st, consumed, ncalls, hist, call_vars, grads,
                       g_cumsum, h, ht, A_intra>>

\* return A
IntraReturn ==
    /\ \/ pc = "sub_intra" /\ SubIntraPrograms(args) \subseteq ran
       \/ pc = "merge" /\ MergePrograms(args) \subseteq ran
    /\ pc' = "intra_done"
    /\ UNCHANGED <<grid_vars, gpat, args, res, st, consumed, ncalls, hist, call_vars, grads,
                   gla_vars>>

NextSplit ==
    \/ \E junk \in JunkVals : IntraSubInter(junk)
    \/ \E p \in SubIntraPrograms(args) : IntraSubIntra(p)
    \/ \E junk \in JunkVals : SplitAlloc(junk)
    \/ \E p \in SplitPrograms(args) : SplitProgram(p)
    \/ SplitDone
    \/ \E p \in MergePrograms(args) : MergeProgram(p)
    \/ IntraReturn

SpecSplit == InitSplit /\ [][NextSplit]_vars

\* ------------------------------------------ level_lut(BT) as a run
\* lut = zeros; one step per level of the loop, lut = where(mask, level, lut)
LutSizes == 1..BT

InitLut ==
    /\ pc = "lut"
    /\ gpat \in {1}
    /\ args \in {[api |-> "level_lut", BT |-> n] : n \in LutSizes}
    /\ res = Pending
    /\ st = NONE /\ consumed = 0 /\ ncalls = 0 /\ hist = <<>>
    /\ NoCall
    /\ grads = NONE
    /\ NoGLA
    /\ NoGrid

\* lut = torch.zeros((BT, BT))
LutZeros ==
    /\ pc = "lut"
    /\ res' = [level |-> 1,
               lut |-> [i \in 0..(args.BT - 1) |-> [j \in 0..(args.BT - 1) |-> 0]]]
    /\ pc' = "lut_loop"
    /\ UNCHANGED <<grid_vars, gpat, args, st, consumed, ncalls, hist, call_vars, grads, gla_vars>>

\* one iteration of for level in range(1, ceil_log(BT, 2) + 1)
LutLevel ==
    /\ pc = "lut_loop"
    /\ res.level <= ceil_log(args.BT, 2)
    /\ res' = [level |-> res.level + 1,
               lut |-> [i \in 0..(args.BT - 1) |-> [j \in 0..(args.BT - 1) |->
                           IF construct_binary_level_mask(res.level, i, j)
                           THEN res.level ELSE res.lut[i][j]]]]
    /\ UNCHANGED <<grid_vars, pc, gpat, args, st, consumed, ncalls, hist, call_vars, grads,
                   gla_vars>>

\* return lut
LutReturn ==
    /\ pc = "lut_loop"
    /\ res.level > ceil_log(args.BT, 2)
    /\ pc' = "lut_done"
    /\ UNCHANGED <<grid_vars, gpat, args, res, st, consumed, ncalls, hist, call_vars, grads,
                   gla_vars>>

NextLut == LutZeros \/ LutLevel \/ LutReturn

SpecLut == InitLut /\ [][NextLut]_vars

\* ---------------------------------------------------------- definitions
\* output value of row t of a returned call: the row and the non-zero level
\* buffers its chunk added
CallOut(ret) ==
    [t \in 1..Len(ret.o) |->
        LET m == ret.o_kv[((t - 1 + ret.r) \div BT) + 1]
        IN  [row |-> ret.o[t], inter |-> {<<lv, m[lv]>> : lv \in {x \in DOMAIN m : m[x] /= {}}}]]

\* one call over positions 0 .. Tn - 1 without initial state
RECURSIVE RunChunks(_, _, _, _, _, _, _)
RunChunks(b, Tn, ML, it, oo, okv, buf) ==
    IF it >= cdiv(Tn, BT) THEN [o |-> oo, o_kv |-> okv, r |-> 0]
    ELSE RunChunks(b, Tn, ML, it + 1,
                   StoreO(oo, Tn, b.q, b.k, b.v, b.g, b.l, Tn, it, 0),
                   Append(okv, [lv \in OutLevels(it, ML) |-> buf[lv]]),
                   IF IsFull(Tn, it) THEN UpdateKV(buf, b.k, b.v, b.g, Tn, it, it, ML) ELSE buf)

OneCall(pat, Tn) ==
    LET b == [q |-> [t \in 1..Tn |-> QIn(t - 1)], k |-> [t \in 1..Tn |-> KIn(t - 1)],
              v |-> [t \in 1..Tn |-> VIn(t - 1)], l |-> [t \in 1..Tn |-> LIn(t - 1)],
              g |-> chunk_local_cumsum([t \in 1..Tn |-> GIn(pat, t - 1)], Tn)]
        ML == ceil_log(ceil_div(Tn, BT), 2) - 1
    IN  RunChunks(b, Tn, ML, 0, [t \in 1..Tn |-> ZeroOut], <<>>, EmptyKV)

InKernel == pc \in {"output", "update", "store"}

\* full chunks folded so far, counted over the whole chain
FoldedChunks == IF pc = "store" THEN first_chunk_index + T \div BT ELSE first_chunk_index + i_t

Live(buf) == {i \in DOMAIN buf : buf[i] /= {}}

BitsOf(n) == {i \in 0..(NumKV - 1) : Bit(n, i)}

TwoEqualCalls ==
    /\ pc = "idle" /\ ncalls = 2 /\ Len(hist) = 2
    /\ Len(hist[1].o) = Len(hist[2].o)

\* C1: a chain of two calls of length T each returns, concatenated, the
\* output of one call over the 2T positions
StreamingEquivalence ==
    TwoEqualCalls =>
        CallOut(hist[1]) \o CallOut(hist[2]) = CallOut(OneCall(gpat, 2 * Len(hist[1].o)))

\* C2: after n full chunks of the chain have been folded, level i is
\* non-empty exactly when bit i of n is set
LevelPartition ==
    (pc \in {"output", "store"}) => Live(kv) = BitsOf(FoldedChunks)

\* C3: with output_final_state, every level buffer that is non-empty at
\* the end of the call is written to ht of the returned state
LiveLevelsStored ==
    [][(pc = "store" /\ output_final_state)
        => \A i \in Live(kv) : i \in DOMAIN st'.ht /\ st'.ht[i] = kv[i]]_vars

\* expected contents of a *_prev buffer: raw rows of the trailing partial
\* chunk of the chain, then zeros
RawTail(F(_)) ==
    LET s == (consumed \div BT) * BT
    IN  [j \in 1..BT |-> IF s + (j - 1) < consumed THEN F(s + (j - 1)) ELSE 0]

GRawIn(p) == GIn(gpat, p)

\* C4: the returned q_prev, k_prev, v_prev, g_prev, l_prev hold the raw
\* inputs of the trailing partial chunk in rows 0.., zeros elsewhere
PrevHoldRawInputs ==
    (pc = "idle" /\ st /= NONE) =>
        /\ st.q_prev = RawTail(QIn)
        /\ st.k_prev = RawTail(KIn)
        /\ st.v_prev = RawTail(VIn)
        /\ st.l_prev = RawTail(LIn)
        /\ st.g_prev = RawTail(GRawIn)

\* C5: the output of global chunk c adds level lv, for lv in 0..MAX_LEVEL,
\* exactly when bit lv of c is set, with the buffer as it is before chunk
\* c is folded in
OutputAddsBitLevels ==
    [][(pc = "output" /\ pc' = "update")
        => LET m == o_kv'[i_t + 1]
           IN  /\ DOMAIN m = {lv \in 0..MAX_LEVEL : Bit(first_chunk_index + i_t, lv)}
               /\ \A lv \in DOMAIN m : m[lv] = kv[lv]
               /\ kv' = kv]_vars

OutputAddsBitLevelsWitness ==
    /\ pc = "update" /\ first_chunk_index + i_t = 3
    /\ DOMAIN o_kv[i_t + 1] = {0, 1}
    /\ o_kv[i_t + 1][0] /= {} /\ o_kv[i_t + 1][1] /= {}

\* C6: the stored offset is the carried offset plus the new positions, so
\* it is the number of positions the chain consumed, and a resumed call
\* starts at chunk floor(offset / 64)
OffsetCarry ==
    /\ st /= NONE => st.offsets = consumed
    /\ InKernel => (offset = consumed /\ first_chunk_index = consumed \div 64)

OffsetCarryWitness ==
    /\ pc = "idle" /\ ncalls = 2 /\ st /= NONE
    /\ hist[2].r /= 0 /\ st.offsets = Len(hist[1].o) + Len(hist[2].o)
    /\ st.offsets % BT /= 0

Checked == pc \in {"done", "raised"}

\* per-sequence total lengths of a log-linear call
Totals(a) ==
    IF a.cu = Absent
    THEN {a.T + (IF a.offs = Absent THEN 0 ELSE SeqMax(a.offs))}
    ELSE {a.cu[i + 1] - a.cu[i] + (IF a.offs = Absent THEN 0 ELSE a.offs[i]) :
            i \in 1..(Len(a.cu) - 1)}

LengthCase ==
    /\ Checked /\ args.api = "chunk_log_linear_attn" /\ args.G = 1
    /\ args.cu /= Absent => (args.B = 1 /\ (args.offs = Absent \/ Len(args.offs) = Len(args.cu) - 1))

\* C7: a log-linear call is rejected with ValueError, nothing allocated or
\* launched, exactly when some total length is not less than 2**17
LengthRejectedFrom2Pow17 ==
    LengthCase =>
        /\ (\E n \in Totals(args) : n >= 2 ^ 17) <=> (res.err = LengthMessage)
        /\ res.err = LengthMessage => ~res.launched
        /\ res.err = OK => res.launched

\* C8: backward raises NotImplementedError and returns no gradient
BackwardRaises ==
    /\ grads = NONE
    /\ args.api = "backward" => (pc = "raised" /\ res.err.error = "NotImplementedError")

BackwardRaisesWitness ==
    /\ args.api = "backward" /\ args.do = 1 /\ args.dht = 1
    /\ pc = "raised" /\ st /= NONE

\* C9: with cu_seqlens and a batch size other than 1, both entry points
\* raise ValueError before the autograd function is applied, naming the
\* actual batch size and the expected 1
BatchRejected ==
    (Checked /\ args.cu /= Absent /\ args.B /= 1) =>
        /\ res.err.error = "ValueError"
        /\ ~res.applied /\ ~res.launched
        /\ res.err.what = "batch size"
        /\ res.err.actual = args.B /\ res.err.expected = 1

BatchRejectedWitness ==
    /\ pc = "raised" /\ args.api = "chunk_log_linear_attn"
    /\ args.cu /= Absent /\ args.B = 2 /\ res.err = BatchMessage(2)

\* C10: chunk_gla raises ValueError before any computation when cu_seqlens
\* and initial_state are given and their sequence counts differ; equal
\* counts or no initial_state are not rejected by this check
StateCountRejected ==
    (Checked /\ args.api = "chunk_gla") =>
        /\ (args.cu /= Absent /\ args.s0 /= Absent /\ args.s0[1] /= Len(args.cu) - 1)
              => (res.err.error = "ValueError" /\ ~res.applied /\ ~res.launched)
        /\ (args.s0 = Absent \/ (args.cu /= Absent /\ args.s0[1] = Len(args.cu) - 1))
              => (res.err = OK \/ res.err.what /= "initial states")

StateCountRejectedWitness ==
    /\ pc = "raised" /\ args.api = "chunk_gla" /\ args.B = 1
    /\ args.cu /= Absent /\ args.s0 = <<3>> /\ Len(args.cu) = 3
    /\ res.err = StatesMessage(2, 3)

\* C11: chunk_log_linear_attn raises ValueError, before any buffer is
\* allocated or kernel launched, when cu_seqlens and an initial state are
\* given and the state's sequence count differs from len(cu_seqlens) - 1
LogLinearStateCountRejected ==
    (Checked /\ args.api = "chunk_log_linear_attn" /\ args.B = 1 /\ args.G = 1
        /\ args.cu /= Absent /\ args.offs /= Absent /\ Len(args.offs) /= Len(args.cu) - 1)
    => (res.err.error = "ValueError" /\ ~res.allocated /\ ~res.launched)

\* C12: chunk_gla rejects keys and values with different head counts at
\* its entry, before the autograd function is applied and any kernel is
\* launched
HeadMismatchRejectedAtEntry ==
    (Checked /\ args.api = "chunk_gla" /\ args.Hk /= args.Hv)
    => (res.err /= OK /\ ~res.applied /\ ~res.launched)

\* the kernel's loop over the chunks of one lane, from the loaded buffers
RECURSIVE RunKernel(_, _, _, _, _, _, _, _, _)
RunKernel(b, Torig, Ta, off, ML, it, oo, okv, buf) ==
    IF it >= cdiv(Ta, BT) THEN [o |-> oo, o_kv |-> okv]
    ELSE RunKernel(b, Torig, Ta, off, ML, it + 1,
                   StoreO(oo, Torig, b.q, b.k, b.v, b.g, b.l, Ta, it, off),
                   Append(okv, [lv \in OutLevels(off \div BT + it, ML) |-> buf[lv]]),
                   IF IsFull(Ta, it)
                   THEN UpdateKV(buf, b.k, b.v, b.g, Ta, it, off \div BT + it, ML) ELSE buf)

\* the output of the running log-linear call as a function of its inputs
\* and initial state alone
KernelOutput(junk) ==
    RunKernel([q |-> q, k |-> k, v |-> v, g |-> g, l |-> l], Len(o), T, offset, MAX_LEVEL, 0,
              [t \in 1..Len(o) |-> ZeroOut], <<>>,
              IF args.s0 = Absent THEN EmptyKV
              ELSE LoadKV(st.ht, offset \div BT, MAX_LEVEL, junk))

\* C13: the output does not depend on output_final_state: a log-linear call
\* returns the function of its inputs and initial state, and a chunk_gla
\* call returns what the same call with the flag flipped returns; the
\* second return value is None exactly when the state is not requested
OutputIgnoresFinalStateFlag ==
    /\ pc = "store" => \E junk \in JunkVals : [o |-> o, o_kv |-> o_kv] = KernelOutput(junk)
    /\ (pc = "idle" /\ args.api = "chunk_log_linear_attn") => ((st = NONE) <=> ~args.ofs)
    /\ pc = "gla_done" =>
          /\ \E junk \in JunkVals :
                o = chunk_gla_fwd([args EXCEPT !.ofs = ~args.ofs], junk).o
          /\ (ht = Absent) <=> ~args.ofs
          /\ hist = <<[o |-> o, ht |-> ht]>>

OutputIgnoresFinalStateFlagWitness ==
    /\ pc = "idle" /\ args.api = "chunk_log_linear_attn" /\ ~args.ofs /\ st = NONE
    /\ ncalls = 2 /\ Len(hist) = 2
    /\ \E t \in 1..Len(hist[2].o) : CallOut(hist[2])[t].inter /= {}

\* the same chunk_gla call on the unperturbed inputs
BaseArgs == [args EXCEPT !.pert = Absent]

FlatArgs ==
    [args EXCEPT !.B = 1, !.T = args.B * args.T,
                 !.cu = [i \in 1..(args.B + 1) |-> (i - 1) * args.T]]

\* C15: a dense chunk_gla call on N sequences of equal length returns the
\* output (up to reshaping) and the final state of the call on the packed
\* input with cu_seqlens = [0, T, ..., N * T] and the same initial state
FlattenedEqualsBatched ==
    (pc = "gla_done" /\ args.cu = Absent) =>
        /\ chunk_gla(FlatArgs).err = OK
        /\ \E junk \in JunkVals :
              LET flat == chunk_gla_fwd(FlatArgs, junk)
              IN  o = flat.o /\ ht = flat.ht

FlattenedEqualsBatchedWitness ==
    /\ pc = "gla_done" /\ args.cu = Absent /\ args.B = 2 /\ args.T = 17
    /\ args.s0 /= Absent /\ args.ofs /\ args.pert = Absent
    /\ gla_chunk_size(args.T) /= gla_chunk_size(FlatArgs.T)
    /\ ht /= Absent /\ o[args.T + 1] /= {}

\* positions summarised by a level buffer (the key of position p is p + 1)
PositionsIn(buf) == {t[1] - 1 : t \in buf}

\* positions of the chunks lo .. hi - 1
ChunkSpan(lo, hi) == (lo * BT)..(hi * BT - 1)

\* C16: when the output of global chunk c is computed, a non-empty level i
\* holds exactly the chunks [b - 2^i, b) with b = c - (c mod 2^i), and the
\* non-empty levels together cover the chunks 0 .. c - 1
LevelBlocks ==
    (pc = "output") =>
        LET c == chunk_index
        IN  /\ \A i \in Live(kv) :
                  LET b == c - (c % (2 ^ i))
                  IN  PositionsIn(kv[i]) = ChunkSpan(b - 2 ^ i, b)
            /\ UNION {PositionsIn(kv[i]) : i \in DOMAIN kv} = ChunkSpan(0, c)

\* number of trailing one bits of c
TrailingOnes(c) ==
    CHOOSE n \in 0..IntBits : (\A i \in 0..(n - 1) : Bit(c, i)) /\ ~Bit(c, n)

\* cumulative gate at the last position of the chunk being processed
GateLast == g[Min2((i_t + 1) * BT, T)]

\* key/value contribution of the chunk being processed
OwnChunk ==
    {<<k[p], v[p], GateLast - g[p]>> : p \in (i_t * BT + 1)..Min2((i_t + 1) * BT, T)}

\* level buffers after the decay and the fold into level 0, before the carry
Folded ==
    [i \in 0..(NumKV - 1) |-> Decay(kv[i], GateLast) \cup (IF i = 0 THEN OwnChunk ELSE {})]

FullChunkStep == pc = "update" /\ IsFull(T, i_t)

\* C17: after full chunk c is folded into level 0, the levels below the
\* number n of trailing one bits of c are reset, level n holds the folded
\* levels 0 .. n added together (nothing is merged when c is even), and
\* the levels above n are left as they were
CarryRule ==
    [][FullChunkStep =>
          LET n == TrailingOnes(chunk_index)
          IN  \A i \in 0..(NumKV - 1) :
                  kv'[i] = IF i < n THEN {}
                           ELSE IF i = n THEN UNION {Folded[j] : j \in 0..n}
                           ELSE Folded[i]]_vars

CarryRuleWitness ==
    /\ pc = "store" /\ chunk_index = 4
    /\ kv[0] = {} /\ kv[1] = {} /\ PositionsIn(kv[2]) = ChunkSpan(0, 4)

AllLevels(buf) == UNION {buf[i] : i \in DOMAIN buf}

\* C18: when a full chunk is processed, every summand of every non-empty
\* level buffer is scaled by the cumulative gate at the chunk's last
\* position, once, and the chunk's own contribution is added undecayed
DecayBeforeFold ==
    [][FullChunkStep =>
          /\ \A i \in Live(kv) : Decay(kv[i], GateLast) \subseteq AllLevels(kv')
          /\ OwnChunk \subseteq AllLevels(kv')
          /\ AllLevels(kv') = Decay(AllLevels(kv), GateLast) \cup OwnChunk]_vars

DecayBeforeFoldWitness ==
    /\ pc = "store" /\ ncalls = 1 /\ i_t = 3 /\ T = 3 * BT
    /\ <<1, 1, g[BT] - g[1] + g[2 * BT] + g[3 * BT]>> \in kv[1]
    /\ <<3 * BT, 3 * BT, 0>> \in kv[0]

\* sum of the cumulative gates at the last positions of the kernel's
\* chunks lo .. hi - 1
RECURSIVE GateLastSum(_, _)
GateLastSum(lo, hi) == IF lo >= hi THEN 0 ELSE g[(lo + 1) * BT] + GateLastSum(lo + 1, hi)

\* a summand of the inter-chunk part of the chunk just stored is built from
\* key, value and gate rows of earlier chunks of the call, or from the
\* loaded state scaled by the gates of earlier chunks
FromEarlierChunks(t) ==
    LET a == (t[1] - 1) - first_chunk_index * BT
    IN  /\ t[1] = t[2]
        /\ a < i_t * BT
        /\ IF a >= 0
           THEN /\ k[a + 1] = t[1] /\ v[a + 1] = t[2]
                /\ t[3] = GateLastSum(a \div BT, i_t) - g[a + 1]
           ELSE /\ st /= NONE
                /\ \E s \in AllLevels(st.ht) :
                      s[1] = t[1] /\ s[2] = t[2] /\ t[3] = s[3] + GateLastSum(0, i_t)

\* C19: the kernel's chunks are processed in increasing index, the level
\* buffers change only in the update step that follows the store of the
\* chunk's output, and the inter-chunk part of the output of a chunk is
\* built from key, value and gate inputs of earlier chunks only
SequentialChunks ==
    [][/\ (pc = "output" /\ pc' = "update")
            => (i_t' = i_t /\ Len(o_kv) = i_t /\ Len(o_kv') = i_t + 1 /\ kv' = kv)
       /\ (pc = "update")
            => /\ i_t' = i_t + 1 /\ Len(o_kv) = i_t + 1 /\ o_kv' = o_kv /\ o' = o
               /\ pc' = "output" => i_t' < NT
               /\ \A lv \in DOMAIN o_kv[i_t + 1] :
                      \A t \in o_kv[i_t + 1][lv] : FromEarlierChunks(t)]_vars

SequentialChunksWitness ==
    /\ pc = "update" /\ i_t = 1 /\ first_chunk_index = 3 /\ ncalls = 2
    /\ \E lv \in DOMAIN o_kv[2] :
          /\ \E t \in o_kv[2][lv] : t[1] - 1 < first_chunk_index * BT
          /\ \E t \in o_kv[2][lv] : t[1] - 1 >= first_chunk_index * BT

\* C20: every element of o, ht and new_offsets that the kernel stores is
\* stored by exactly one program instance (i_k, i_n, i_h)
SingleWriter ==
    \A p1, p2 \in DOMAIN stores : p1 /= p2 => stores[p1] \cap stores[p2] = {}

\* C21: after chunk_gla_fwd_intra_gk returned, every entry of A whose
\* column (key index in the chunk) is greater than the row's index in its
\* chunk is zero, whatever the allocation contained
UpperScoresZero ==
    (pc \in {"gla_o", "gla_done"}) =>
        \A i \in DOMAIN A : \A c \in DOMAIN A[i] :
            LET n == SeqAt(args, i - 1)
                t == i - 1 - bos(args, n)
            IN  c > t % gla_chunk_size(T) => A[i][c] = {}

\* global positions of the rows of chunk i_t of the running call
ChunkRows(c) == {p \in ChunkSpan(first_chunk_index + c, first_chunk_index + c + 1) :
                    p - first_chunk_index * BT < T}

\* the chunk being processed is the last one and has fewer than BT rows
TrailingPartial == i_t = cdiv(T, BT) - 1 /\ T % BT /= 0

ChunkSizes ==
    (args.api = "sizes" /\ pc /= "sizes") =>
        /\ res.chunk_size \in {16, 32, 64}
        /\ res.chunk_size >= Min2(T, 64)
        /\ \A b \in {16, 32, 64} : b >= Min2(T, 64) => res.chunk_size <= b
        /\ \A i \in DOMAIN hist :
              /\ hist[i].BT = res.chunk_size
              /\ hist[i].BC = 16
              /\ hist[i].BT % hist[i].BC = 0
              /\ hist[i].NC * hist[i].BC = hist[i].BT

ChunkSizesWitness ==
    /\ args.api = "sizes" /\ pc = "size_done" /\ T = 33
    /\ Len(hist) = 8 /\ hist[7].helper = "chunk_gla_bwd_dqk_intra" /\ hist[7].NC = 4

\* C24: in the cross-sub-block score kernel, with no raw gate above zero,
\* for every query row of sub-block i and every in-range key of an earlier
\* sub-block j both exponent arguments, b_g - b_gn and b_gn - b_gk, are at
\* most zero
InterExponentsNonPositive ==
    (pc = "gla_sub_intra" /\ \A i \in DOMAIN g : g[i] <= 0) =>
        LET bt == gla_chunk_size(T)
            BC == Min2(SubBlock, bt)
        IN  \A i \in 1..Total(args) : \A c \in 0..(bt - 1) :
                LET n   == SeqAt(args, i - 1)
                    b   == bos(args, n)
                    t   == i - 1 - b
                    i_c == t \div bt
                    i_i == (t % bt) \div BC
                    kp  == i_c * bt + c
                    gn  == sub_inter_b_gn(g_cumsum, b, bt, i_c, i_i)
                IN  (i_i > c \div BC /\ kp < seq_len(args, n))
                        => /\ g_cumsum[i] - gn <= 0
                           /\ gn - g_cumsum[b + kp + 1] <= 0

InterExponentsWitness ==
    /\ pc = "gla_sub_intra" /\ T = 24 /\ args.B = 2
    /\ \A i \in DOMAIN g : g[i] <= 0
    /\ A[41][3] /= {} /\ \A e \in A[41][3] : e[3] < 0

\* programs that stored entry loc of A
WritersOf(loc) == {w \in DOMAIN stores : loc \in stores[w]}

\* C25: for K > 256 the diagonal sub-blocks are produced by the split
\* launch followed by the merge launch, no merge program running before
\* every split program finished; on return every in-range causal entry of
\* a diagonal sub-block holds the sum over all K key dimensions that the
\* single kernel computes for it, and was stored exactly once
SplitMergeEqualsSingle ==
    (pc \in {"split", "merge", "intra_done"} /\ args.K > SingleKernelMaxK) =>
        /\ \A w \in ran : w.kernel /= "sub_intra"
        /\ (\E w \in ran : w.kernel = "merge") => SplitPrograms(args) \subseteq ran
        /\ pc = "intra_done" =>
              \A p \in MergePrograms(args) : \A x \in DiagRows(args, p) : \A j \in 0..x :
                  LET loc == <<DiagPos(args, p, x), p.i_c * IntraBC(args) + j>>
                  IN  /\ A[loc[1]][loc[2]]
                            = SubIntraValue(args, [p EXCEPT !.kernel = "sub_intra"], loc)
                      /\ A[loc[1]][loc[2]] /= ZeroScore
                      /\ Cardinality(WritersOf(loc)) = 1

SplitMergeWitness ==
    /\ pc = "intra_done" /\ args.K = 257 /\ args.T = 17
    /\ Cardinality({w \in ran : w.kernel = "split"}) = 6
    /\ A[17][16] = <<<<0, 256>>>>

\* index of the highest bit in which i and j differ
HighestDifferingBit(i, j) ==
    CHOOSE b \in 0..(IntBits - 1) :
        /\ Bit(i, b) /= Bit(j, b)
        /\ \A c \in (b + 1)..(IntBits - 1) : Bit(i, c) = Bit(j, c)

\* C26: for BT a power of two, the table returned by level_lut holds, for
\* every j < i, 1 + the index of the highest bit in which i and j differ,
\* a value in 1 .. log2(BT); the diagonal holds 0; for each causal pair
\* exactly one level's mask is set; the kernel's table is the one for BT
LevelLutIsHighestBit ==
    (pc = "lut_done" /\ args.BT = 2 ^ ceil_log(args.BT, 2)) =>
        /\ \A i \in 0..(args.BT - 1) :
              /\ res.lut[i][i] = 0
              /\ \A j \in 0..(i - 1) :
                    /\ res.lut[i][j] = 1 + HighestDifferingBit(i, j)
                    /\ res.lut[i][j] \in 1..ceil_log(args.BT, 2)
              /\ \A j \in 0..i :
                    Cardinality({lv \in 0..ceil_log(args.BT, 2) :
                                    construct_binary_level_mask(lv, i, j)}) = 1
        /\ args.BT = BT => res.lut = level_lut

LevelLutWitness ==
    /\ pc = "lut_done" /\ args.BT = 64
    /\ res.lut[63][0] = 6 /\ res.lut[5][4] = 1 /\ res.lut[6][4] = 2

\* C27: in an accepted call MAX_LEVEL is ceil_log(NT, 2) - 1 for NT the
\* chunk count of the chain up to the end of the call, and every global
\* chunk index the loop processes is below 2^(MAX_LEVEL + 1): each of its
\* set bits, and each bit of its carry mask, names a level that MAX_LEVEL
\* enables
ChunkIndexWithinLevels ==
    (pc \in {"output", "update"}) =>
        /\ MAX_LEVEL = ceil_log(cdiv(offset + Len(o), BT), 2) - 1
        /\ chunk_index < 2 ^ (MAX_LEVEL + 1)
        /\ \A b \in BitsOf(chunk_index) : b <= MAX_LEVEL
        /\ IsFull(T, i_t) => \A b \in BitsOf(CheckValue(chunk_index)) : b <= MAX_LEVEL

ChunkIndexWithinLevelsWitness ==
    /\ pc = "update" /\ ncalls = 2 /\ offset = 192 /\ chunk_index = 3 /\ MAX_LEVEL = 1
    /\ IsFull(T, i_t)

\* C28: along a chain, every level the prologue reads from the supplied
\* ht lies inside its level dimension (MAX_LEVEL + 2 of the call that made
\* it), so nothing but stored summands is loaded; every level the epilogue
\* writes lies inside the level dimension of the new ht; no level index
\* exceeds 11
LevelIndicesInRange ==
    [][/\ (pc = "idle" /\ pc' = "output" /\ args'.s0 /= Absent)
            => /\ \A i \in 0..(NumKV - 1) :
                      (KV_CREATED(i, MAX_LEVEL') /\ Bit(offset' \div BT, i))
                          => (i \in DOMAIN st.ht /\ i <= 11)
               /\ \A t \in AllLevels(kv') : t[1] > 0 /\ t[2] > 0
       /\ (pc = "store" /\ output_final_state)
            => /\ DOMAIN st'.ht = 0..(MAX_LEVEL + 1)
               /\ \A i \in 0..(NumKV - 1) :
                      (MIN_LEVEL <= i /\ MAX_LEVEL >= i /\ Bit(offset \div BT + T \div BT, i))
                          => (i \in DOMAIN st'.ht /\ i <= 11)
               /\ \A i \in Live(st'.ht) : i <= MAX_LEVEL]_vars

LevelIndicesWitness ==
    /\ pc = "output" /\ ncalls = 2 /\ i_t = 0 /\ offset = 192
    /\ DOMAIN st.ht = 0..2 /\ kv[0] /= {} /\ kv[1] /= {}

\* C29: in a resumed dense call that carries r = offset mod 64 rows, every
\* program stores the output of new position t of its sequence n at row t
\* of sequence n of o, and stores the outputs of the r carried rows nowhere
ResumedOutputRows ==
    (args.api = "chunk_log_linear_attn" /\ pc \in {"launch", "returned"}
        /\ args.offs /= Absent /\ args.offs[1] % BT /= 0) =>
        \A p \in ran :
            /\ \A t \in 0..(args.T - 1) : \A c \in 0..(args.V - 1) :
                  /\ t + (args.offs[1] % BT) \in OStoredFrom(args, p)
                  /\ OAddress(args, p, t, c) = OIndex(args, p.i_n, t, p.i_h, p.i_k, c)
                  /\ <<"o", OIndex(args, p.i_n, t, p.i_h, p.i_k, c)>> \in stores[p]
            /\ \A ka \in 0..((args.offs[1] % BT) - 1) : ka \notin OStoredFrom(args, p)

\* the same for a single batch row
ResumedOutputRowsOneSequence == args.B = 1 => ResumedOutputRows

====
